---- MODULE Spec2Model ----
(***************************************************************************)
(* A model of parts of the Portals 4 reference implementation:             *)
(*   - the ordered NEMESIS queue of the shared-memory transport            *)
(*     (trunk/src/shmem/include/ptl_internal_orderednemesis.h),            *)
(*   - the receive sub-FSM of the progress thread (src/ib/ptl_recv.c),     *)
(*   - the data movement entry points (trunk/ib/src/ptl_move.c).           *)
(* Each part has its own specification over the shared variable tuple.     *)
(***************************************************************************)
EXTENDS Integers, Sequences, FiniteSets, Bags, TLC

\* the null pointer (entries are pairs)
NULL == <<>>

(***************************************************************************)
(* Bounds of the model.                                                    *)
(***************************************************************************)
\* sequence values v passed to Enqueue and upper bounds passed to Dequeue
\* range over 0..MaxVal
MaxVal == 1
\* every producer enqueues its entries <<p, 1>> .. <<p, EntriesPerProducer>>,
\* one call after the other
EntriesPerProducer == 2

(***************************************************************************)
(* Ordered NEMESIS queue.                                                  *)
(* One step per access to the shared queue.  The 128 bit compare-and-swap  *)
(* is one step; a plain copy of an ordered_NEMESIS_ptr (the places marked  *)
(* "XXX: atomic write", "XXX: atomic read", "XXX: must be atomic" and the  *)
(* first read in PtlInternalAtomicSwap128) is two 8 byte accesses, in the  *)
(* order the build chose for the two members.                              *)
(***************************************************************************)
VARIABLES
    copy_order, \* the build: the order in which a 16 byte copy moves .ptr, .val
    q,          \* ordered_NEMESIS_queue: head, tail, shadow_head
    e_next,     \* ordered_NEMESIS_entry.next of every entry
    enq,        \* per producer: the position inside its Enqueue call
    deq,        \* the single consumer: the position inside its Dequeue call
    enq_ret,    \* history: what Enqueue returned for every entry (-1: not yet)
    deq_log     \* history: the entries Dequeue returned, in order

nemVars == <<copy_order, q, e_next, enq, deq, enq_ret, deq_log>>

\* history: the val every entry was enqueued with (-1: not yet)
VARIABLES enq_val
nemHist == <<enq_val>>

Producers == {1, 2}
Vals == 0..MaxVal
\* producer 1 enqueues EntriesPerProducer entries, every other producer one
NumEntries(p) == IF p = 1 THEN EntriesPerProducer ELSE 1
Entries == {e \in Producers \X (1..EntriesPerProducer) : e[2] <= NumEntries(e[1])}

\* ordered_NEMESIS_ptr
NemPtr(p, v) == [ptr |-> p, val |-> v]
nil == NemPtr(NULL, 0)

CopyOrders == {<<"ptr", "val">>, <<"val", "ptr">>}

PtlInternalOrderedNEMESISInit ==
    /\ q = [head |-> nil, tail |-> nil, shadow_head |-> nil]

EnqIdle(i) == [pc |-> "idle", idx |-> i, v |-> 0, oldval |-> nil,
               step |-> 1, wrote |-> FALSE]
DeqIdle(r) == [pc |-> "idle", upper_bound |-> 0, retval |-> nil,
               step |-> 1, ret |-> r]

NemHistInit == enq_val = [e \in Entries |-> -1]

NemInit ==
    /\ copy_order \in CopyOrders
    /\ PtlInternalOrderedNEMESISInit
    /\ e_next = [e \in Entries |-> nil]
    /\ enq = [p \in Producers |-> EnqIdle(1)]
    /\ deq = DeqIdle(NULL)
    /\ enq_ret = [e \in Entries |-> -1]
    /\ deq_log = <<>>

\* the entry and the pair a producer is enqueuing
EnqE(p) == <<p, enq[p].idx>>
EnqF(p) == NemPtr(EnqE(p), enq[p].v)

\* Enqueue returns: the locals die, the producer goes on to its next entry
EnqReturn(p, r) ==
    /\ enq' = [enq EXCEPT ![p] = EnqIdle(enq[p].idx + 1)]
    /\ enq_ret' = [enq_ret EXCEPT ![EnqE(p)] = r]

\* PtlInternalOrderedNEMESISEnqueue(q, e, v) is called; f = {e, v},
\* assert(f.ptr->next.ptr == NULL)
EnqCall(p) ==
    /\ enq[p].pc = "idle"
    /\ enq[p].idx <= NumEntries(p)
    /\ e_next[EnqE(p)].ptr = NULL
    /\ \E v \in Vals :
         enq' = [enq EXCEPT ![p] = [@ EXCEPT !.pc = "swap_read", !.v = v]]
    /\ UNCHANGED <<copy_order, q, e_next, deq, enq_ret, deq_log>>

\* PtlInternalAtomicSwap128: oldval = *addr, a plain copy of the tail; then
\* if (oldval.val > newval.val) return oldval, which makes Enqueue return 0
EnqSwapRead(p) ==
    /\ enq[p].pc = "swap_read"
    /\ LET f   == copy_order[enq[p].step]
           old == [enq[p].oldval EXCEPT ![f] = q.tail[f]]
       IN  IF enq[p].step < 2
           THEN /\ enq' = [enq EXCEPT ![p] = [@ EXCEPT !.oldval = old, !.step = 2]]
                /\ enq_ret' = enq_ret
           ELSE IF old.val > enq[p].v
                THEN EnqReturn(p, 0)
                ELSE /\ enq' = [enq EXCEPT ![p] =
                                  [@ EXCEPT !.oldval = old, !.step = 1,
                                            !.pc = "swap_cas"]]
                     /\ enq_ret' = enq_ret
    /\ UNCHANGED <<copy_order, q, e_next, deq, deq_log>>

\* A faulty swap loop that gives up on tmp.val >= newval.val.
EnqSwapCas_Ge(p) ==
    /\ enq[p].pc = "swap_cas"
    /\ LET tmp == q.tail
       IN  IF tmp = enq[p].oldval
           THEN /\ q' = [q EXCEPT !.tail = EnqF(p)]
                /\ enq' = [enq EXCEPT ![p] =
                             [@ EXCEPT !.pc = "link", !.wrote = TRUE]]
                /\ enq_ret' = enq_ret
           ELSE /\ q' = q
                /\ IF tmp.val >= enq[p].v
                   THEN EnqReturn(p, 0)
                   ELSE /\ enq' = [enq EXCEPT ![p] = [@ EXCEPT !.oldval = tmp]]
                        /\ enq_ret' = enq_ret
    /\ UNCHANGED <<copy_order, e_next, deq, deq_log>>

\* PtlInternalAtomicSwap128: tmp = PtlInternalAtomicCas128(addr, oldval,
\* newval) and one turn of the while loop around it
EnqSwapCas(p) ==
    /\ enq[p].pc = "swap_cas"
    /\ LET tmp == q.tail
       IN  IF tmp = enq[p].oldval
           THEN /\ q' = [q EXCEPT !.tail = EnqF(p)]
                /\ enq' = [enq EXCEPT ![p] =
                             [@ EXCEPT !.pc = "link", !.wrote = TRUE]]
                /\ enq_ret' = enq_ret
           ELSE /\ q' = q
                /\ IF tmp.val > enq[p].v
                   THEN EnqReturn(p, 0)
                   ELSE /\ enq' = [enq EXCEPT ![p] = [@ EXCEPT !.oldval = tmp]]
                        /\ enq_ret' = enq_ret
    /\ UNCHANGED <<copy_order, e_next, deq, deq_log>>

\* A faulty link step that stores f into q->head whatever the previous tail
\* was; the per-producer order does not survive it.
EnqLink_HeadAlways(p) ==
    /\ enq[p].pc = "link"
    /\ LET f == copy_order[enq[p].step]
       IN  /\ q' = [q EXCEPT !.head[f] = EnqF(p)[f]]
           /\ e_next' = e_next
           /\ IF enq[p].step < 2
              THEN /\ enq' = [enq EXCEPT ![p] = [@ EXCEPT !.step = 2]]
                   /\ enq_ret' = enq_ret
              ELSE EnqReturn(p, 1)
    /\ UNCHANGED <<copy_order, deq, deq_log>>

\* Enqueue after the swap happened: q->head = f when prev.ptr == NULL, else
\* prev.ptr->next = f (both "XXX: atomic write"); return 1 after the second
\* member
EnqLink(p) ==
    /\ enq[p].pc = "link"
    /\ LET f    == copy_order[enq[p].step]
           prev == enq[p].oldval
       IN  /\ IF prev.ptr = NULL
              THEN /\ q' = [q EXCEPT !.head[f] = EnqF(p)[f]]
                   /\ e_next' = e_next
              ELSE /\ e_next' = [e_next EXCEPT ![prev.ptr][f] = EnqF(p)[f]]
                   /\ q' = q
           /\ IF enq[p].step < 2
              THEN /\ enq' = [enq EXCEPT ![p] = [@ EXCEPT !.step = 2]]
                   /\ enq_ret' = enq_ret
              ELSE EnqReturn(p, 1)
    /\ UNCHANGED <<copy_order, deq, deq_log>>

\* Dequeue returns r: the locals die
DeqReturn(r) ==
    /\ deq' = DeqIdle(r)
    /\ deq_log' = IF r = NULL THEN deq_log ELSE Append(deq_log, r)

\* PtlInternalOrderedNEMESISDequeue(q, upper_bound) is called
DeqCall ==
    /\ deq.pc = "idle"
    /\ \E ub \in Vals :
         deq' = [DeqIdle(NULL) EXCEPT !.pc = "read_head", !.upper_bound = ub]
    /\ UNCHANGED <<copy_order, q, e_next, enq, enq_ret, deq_log>>

\* A faulty head test that forgets retval.val > upper_bound.
DeqReadHead_NoBound ==
    /\ deq.pc = "read_head"
    /\ LET f  == copy_order[deq.step]
           rv == [deq.retval EXCEPT ![f] = q.head[f]]
       IN  IF deq.step < 2
           THEN /\ deq' = [deq EXCEPT !.retval = rv, !.step = 2]
                /\ deq_log' = deq_log
           ELSE IF rv.ptr = NULL
                THEN DeqReturn(NULL)
                ELSE /\ deq' = [deq EXCEPT !.pc = "check_next",
                                           !.retval = rv, !.step = 1]
                     /\ deq_log' = deq_log
    /\ UNCHANGED <<copy_order, q, e_next, enq, enq_ret>>

\* retval = q->head ("XXX: atomic read"), then the tests
\* retval.ptr != NULL and retval.val > upper_bound
DeqReadHead ==
    /\ deq.pc = "read_head"
    /\ LET f  == copy_order[deq.step]
           rv == [deq.retval EXCEPT ![f] = q.head[f]]
       IN  IF deq.step < 2
           THEN /\ deq' = [deq EXCEPT !.retval = rv, !.step = 2]
                /\ deq_log' = deq_log
           ELSE IF rv.ptr = NULL \/ rv.val > deq.upper_bound
                THEN DeqReturn(NULL)
                ELSE /\ deq' = [deq EXCEPT !.pc = "check_next",
                                           !.retval = rv, !.step = 1]
                     /\ deq_log' = deq_log
    /\ UNCHANGED <<copy_order, q, e_next, enq, enq_ret>>

\* if (retval.ptr->next.ptr != NULL)
DeqCheckNext ==
    /\ deq.pc = "check_next"
    /\ deq' = [deq EXCEPT
                 !.pc = IF e_next[deq.retval.ptr].ptr # NULL
                        THEN "advance" ELSE "clear_head"]
    /\ UNCHANGED <<copy_order, q, e_next, enq, enq_ret, deq_log>>

\* q->head = retval.ptr->next ("XXX: must be atomic")
DeqAdvance ==
    /\ deq.pc = "advance"
    /\ LET f == copy_order[deq.step]
       IN  /\ q' = [q EXCEPT !.head[f] = e_next[deq.retval.ptr][f]]
           /\ deq' = IF deq.step < 2
                     THEN [deq EXCEPT !.step = 2]
                     ELSE [deq EXCEPT !.step = 1, !.pc = "clear_next"]
    /\ UNCHANGED <<copy_order, e_next, enq, enq_ret, deq_log>>

\* retval.ptr->next.ptr = NULL; return retval.ptr
DeqClearNext ==
    /\ deq.pc = "clear_next"
    /\ e_next' = [e_next EXCEPT ![deq.retval.ptr].ptr = NULL]
    /\ DeqReturn(deq.retval.ptr)
    /\ UNCHANGED <<copy_order, q, enq, enq_ret>>

\* q->head.ptr = NULL
DeqClearHead ==
    /\ deq.pc = "clear_head"
    /\ q' = [q EXCEPT !.head.ptr = NULL]
    /\ deq' = [deq EXCEPT !.pc = "cas_tail"]
    /\ UNCHANGED <<copy_order, e_next, enq, enq_ret, deq_log>>

\* old = PtlInternalAtomicCas128(&q->tail, retval, nil); when it took
\* place return retval.ptr, else wait for the successor to be linked
DeqCasTail ==
    /\ deq.pc = "cas_tail"
    /\ IF q.tail = deq.retval
       THEN /\ q' = [q EXCEPT !.tail = nil]
            /\ DeqReturn(deq.retval.ptr)
       ELSE /\ q' = q
            /\ deq' = [deq EXCEPT !.pc = "spin"]
            /\ deq_log' = deq_log
    /\ UNCHANGED <<copy_order, e_next, enq, enq_ret>>

\* while (retval.ptr->next.ptr == NULL) ;
DeqSpin ==
    /\ deq.pc = "spin"
    /\ e_next[deq.retval.ptr].ptr # NULL
    /\ deq' = [deq EXCEPT !.pc = "advance"]
    /\ UNCHANGED <<copy_order, q, e_next, enq, enq_ret, deq_log>>

(***************************************************************************)
(* The receive sub-FSM (ptl_recv.c).  The progress thread handles one      *)
(* completed buffer at a time: comp_poll or the shared memory queue        *)
(* delivers a buffer, and the handlers run until the loop leaves.          *)
(***************************************************************************)
\* enum hdr_op, in the order the comparisons of recv_packet and send_comp
\* rely on
OP_PUT == 1
OP_GET == 2
OP_ATOMIC == 3
OP_FETCH == 4
OP_SWAP == 5
OP_RDMA_DISC == 6
OP_REPLY == 7
OP_NO_ACK == 11
PTL_HDR_VER_1 == 1

\* number of completions the progress thread handles
MaxCompletions == 3
\* ni->iface->cap.max_srq_wr and get_param(PTL_SRQ_REPOST_SIZE)
MaxSrqWr == 2
SrqRepostSize == 1

VARIABLES recv_state, buf, transport, ni, conn, handed, runs
recvVars == <<recv_state, buf, transport, ni, conn, handed, runs>>

Operations == {OP_PUT, OP_SWAP, OP_RDMA_DISC, OP_REPLY, OP_NO_ACK}
Versions == {PTL_HDR_VER_1, PTL_HDR_VER_1 + 1}
\* buf->length, counted from sizeof(req_hdr_t): negative is a truncated
\* request header
Lengths == {-1, 0}
WcStatus == {"IBV_WC_SUCCESS", "IBV_WC_WR_FLUSH_ERR"}
BufTypes == {"BUF_SEND", "BUF_RDMA", "BUF_RECV", "BUF_INIT"}

\* a buffer nobody is using
BufFree ==
    [type |-> "BUF_FREE", length |-> 0, version |-> PTL_HDR_VER_1,
     operation |-> OP_PUT, handle_ok |-> FALSE, signaled |-> FALSE,
     ni_fail |-> "PTL_NI_OK", completed |-> 0, tgt_state |-> "NONE",
     xxbuf_self |-> FALSE, ref |-> 0, status |-> "IBV_WC_SUCCESS"]

RecvInit ==
    /\ recv_state = "IDLE"
    /\ buf = BufFree
    /\ transport = "ib"
    /\ ni = [num_recv_drops |-> 0, num_recv_errs |-> 0,
             num_posted_recv |-> MaxSrqWr, recv_list |-> MaxSrqWr,
             srq |-> MaxSrqWr]
    /\ conn = [state |-> "CONN_STATE_CONNECTED", local_disc |-> 0,
               remote_disc |-> 0]
    /\ handed = <<>>
    /\ runs = 0

\* the state comp_poll gives a completed buffer
CompPollState(status, type) ==
    IF status # "IBV_WC_SUCCESS"
    THEN CASE type = "BUF_SEND" -> "STATE_RECV_SEND_COMP"
           [] type = "BUF_RDMA" -> "STATE_RECV_ERROR"
           [] OTHER -> "STATE_RECV_DROP_BUF"
    ELSE CASE type = "BUF_SEND" -> "STATE_RECV_SEND_COMP"
           [] type = "BUF_RDMA" -> "STATE_RECV_RDMA_COMP"
           [] type = "BUF_RECV" -> "STATE_RECV_PACKET_RDMA"
           [] OTHER -> "STATE_RECV_ERROR"

\* a disconnect message is on the wire only after the side that sends it
\* set its disc flag
DiscSendOk(b) ==
    b.operation = OP_RDMA_DISC => conn.local_disc = 1 /\ b.signaled
DiscRecvOk(b) ==
    (b.version = PTL_HDR_VER_1 /\ b.operation = OP_RDMA_DISC)
        => conn.remote_disc = 0 /\ conn.state = "CONN_STATE_CONNECTED"

\* comp_poll: one work completion of the rdma cq, converted to its buffer
comp_poll ==
    /\ recv_state = "IDLE"
    /\ runs < MaxCompletions
    /\ \E status \in WcStatus, type \in BufTypes, op \in Operations,
          sig \in BOOLEAN, b2 \in BOOLEAN :
         LET b0 == [BufFree EXCEPT !.type = type, !.ref = 1,
                                      !.status = status]
             fail == IF status # "IBV_WC_SUCCESS" /\ type = "BUF_SEND"
                     THEN "PTL_NI_UNDELIVERABLE" ELSE "PTL_NI_OK"
         IN  /\ CASE type = "BUF_SEND" ->
                       /\ buf' = [b0 EXCEPT !.operation = op, !.signaled = sig,
                                            !.ni_fail = fail]
                       /\ ~b2
                       /\ DiscSendOk(buf')
                       /\ ni' = ni
                  [] type = "BUF_RDMA" ->
                       /\ buf' = [b0 EXCEPT !.signaled = sig, !.xxbuf_self = b2]
                       /\ op = OP_PUT
                       /\ ni' = ni
                  [] type = "BUF_RECV" ->
                       /\ ni.srq > 0
                       /\ ni' = [ni EXCEPT !.srq = @ - 1]
                       /\ \E v \in Versions, len \in Lengths :
                            buf' = [b0 EXCEPT !.operation = op, !.version = v,
                                              !.length = len, !.handle_ok = b2]
                       /\ ~sig
                       /\ DiscRecvOk(buf')
                  [] OTHER ->
                       /\ buf' = b0
                       /\ op = OP_PUT /\ ~sig /\ ~b2
                       /\ ni' = ni
             /\ recv_state' = CompPollState(status, type)
    /\ transport' = "ib"
    /\ handed' = <<>>
    /\ runs' = runs + 1
    /\ UNCHANGED conn

\* progress_thread: a message taken from the shared memory queue enters
\* process_recv_mem in STATE_RECV_PACKET
shmem_recv ==
    /\ recv_state = "IDLE"
    /\ runs < MaxCompletions
    /\ \E op \in Operations \ {OP_RDMA_DISC}, v \in Versions,
          len \in Lengths, h \in BOOLEAN :
         buf' = [BufFree EXCEPT !.type = "BUF_RECV", !.ref = 1,
                                !.operation = op, !.version = v,
                                !.length = len, !.handle_ok = h]
    /\ recv_state' = "STATE_RECV_PACKET"
    /\ transport' = "mem"
    /\ handed' = <<>>
    /\ runs' = runs + 1
    /\ UNCHANGED <<ni, conn>>

\* initiate_disconnect_one: the local side announces its disconnect
initiate_disconnect_one ==
    /\ recv_state = "IDLE"
    /\ conn.state = "CONN_STATE_CONNECTED"
    /\ conn.local_disc = 0
    /\ conn' = [conn EXCEPT !.local_disc = 1]
    /\ UNCHANGED <<recv_state, buf, transport, ni, handed, runs>>

\* A faulty disconnect_conn_locked that leaves the connection as it is.
disconnect_conn_locked_Noop(c) == c

\* disconnect_conn_locked of an rdma connection; ABORTED stands for the
\* abort() of a second call
disconnect_conn_locked(c) ==
    CASE c.state \in {"CONN_STATE_CONNECTING", "CONN_STATE_CONNECTED",
                      "CONN_STATE_RESOLVING_ROUTE",
                      "CONN_STATE_RESOLVING_ADDR"} ->
           [c EXCEPT !.state = "CONN_STATE_DISCONNECTING"]
      [] c.state = "CONN_STATE_DISCONNECTING" ->
           [c EXCEPT !.state = "ABORTED"]
      [] OTHER -> c

\* what process_tgt or process_init is called with
Handoff(sm, b, from) ==
    [sm |-> sm, type |-> b.type, tgt_state |-> b.tgt_state,
     ni_fail |-> b.ni_fail, completed |-> b.completed, from |-> from]

\* A faulty send_comp that lets only a requested completion through.
send_comp_SignaledOnly ==
    /\ recv_state = "STATE_RECV_SEND_COMP"
    /\ IF buf.signaled
       THEN IF buf.operation <= OP_SWAP
            THEN /\ buf' = [buf EXCEPT !.completed = 1, !.ref = @ - 1]
                 /\ handed' = Append(handed,
                                Handoff("init", [buf EXCEPT !.completed = 1],
                                        "send_comp"))
                 /\ conn' = conn
            ELSE /\ buf' = [buf EXCEPT !.ref = @ - 1]
                 /\ handed' = handed
                 /\ conn' = IF buf.operation = OP_RDMA_DISC
                            THEN LET c == [conn EXCEPT !.local_disc = 2]
                                 IN  IF c.remote_disc # 0
                                     THEN disconnect_conn_locked(c) ELSE c
                            ELSE conn
       ELSE /\ buf' = [buf EXCEPT !.ref = @ - 1]
            /\ UNCHANGED <<handed, conn>>
    /\ recv_state' = "STATE_RECV_DONE"
    /\ UNCHANGED <<transport, ni, runs>>

\* send_comp: a send completion
send_comp ==
    /\ recv_state = "STATE_RECV_SEND_COMP"
    /\ IF buf.signaled \/ buf.ni_fail = "PTL_NI_UNDELIVERABLE"
       THEN IF buf.operation <= OP_SWAP
            THEN /\ buf' = [buf EXCEPT !.completed = 1, !.ref = @ - 1]
                 /\ handed' = Append(handed,
                                Handoff("init", [buf EXCEPT !.completed = 1],
                                        "send_comp"))
                 /\ conn' = conn
            ELSE /\ buf' = [buf EXCEPT !.ref = @ - 1]
                 /\ handed' = handed
                 /\ conn' = IF buf.operation = OP_RDMA_DISC
                            THEN LET c == [conn EXCEPT !.local_disc = 2]
                                 IN  IF c.remote_disc # 0
                                     THEN disconnect_conn_locked(c) ELSE c
                            ELSE conn
       ELSE /\ buf' = [buf EXCEPT !.ref = @ - 1]
            /\ UNCHANGED <<handed, conn>>
    /\ recv_state' = "STATE_RECV_DONE"
    /\ UNCHANGED <<transport, ni, runs>>

\* rdma_comp: an rdma completion; the XT behind it goes on in process_tgt
rdma_comp ==
    /\ recv_state = "STATE_RECV_RDMA_COMP"
    /\ IF ~buf.signaled
       THEN /\ recv_state' = "STATE_RECV_DONE"
            /\ UNCHANGED <<buf, handed>>
       ELSE /\ buf' = IF buf.xxbuf_self THEN buf
                      ELSE [buf EXCEPT !.ref = @ - 1]
            /\ handed' = Append(handed, Handoff("tgt", buf, "rdma_comp"))
            /\ \E err \in BOOLEAN :
                 recv_state' = IF err THEN "STATE_RECV_ERROR"
                               ELSE "STATE_RECV_DONE"
    /\ UNCHANGED <<transport, ni, conn, runs>>

\* recv_packet_rdma: the buffer leaves the srq accounting
recv_packet_rdma ==
    /\ recv_state = "STATE_RECV_PACKET_RDMA"
    /\ ni' = [ni EXCEPT !.num_posted_recv = @ - 1, !.recv_list = @ - 1]
    /\ recv_state' = "STATE_RECV_PACKET"
    /\ UNCHANGED <<buf, transport, conn, handed, runs>>

\* A faulty recv_packet that tests operation < OP_SWAP.
recv_packet_LtSwap ==
    /\ recv_state = "STATE_RECV_PACKET"
    /\ IF buf.version # PTL_HDR_VER_1
       THEN /\ recv_state' = "STATE_RECV_DROP_BUF"
            /\ conn' = conn
       ELSE IF buf.operation < OP_SWAP
            THEN /\ recv_state' = IF buf.length < 0
                                  THEN "STATE_RECV_DROP_BUF"
                                  ELSE "STATE_RECV_REQ"
                 /\ conn' = conn
            ELSE IF buf.operation >= OP_REPLY
                 THEN /\ recv_state' = "STATE_RECV_INIT"
                      /\ conn' = conn
                 ELSE /\ conn' = LET c == [conn EXCEPT !.remote_disc = 1]
                                 IN  IF c.local_disc = 2
                                     THEN disconnect_conn_locked(c) ELSE c
                      /\ recv_state' = "STATE_RECV_DROP_BUF"
    /\ UNCHANGED <<buf, transport, ni, handed, runs>>

\* recv_packet: version check, then the next state by operation
recv_packet ==
    /\ recv_state = "STATE_RECV_PACKET"
    /\ IF buf.version # PTL_HDR_VER_1
       THEN /\ recv_state' = "STATE_RECV_DROP_BUF"
            /\ conn' = conn
       ELSE IF buf.operation <= OP_SWAP
            THEN /\ recv_state' = IF buf.length < 0
                                  THEN "STATE_RECV_DROP_BUF"
                                  ELSE "STATE_RECV_REQ"
                 /\ conn' = conn
            ELSE IF buf.operation >= OP_REPLY
                 THEN /\ recv_state' = "STATE_RECV_INIT"
                      /\ conn' = conn
                 ELSE /\ conn' = LET c == [conn EXCEPT !.remote_disc = 1]
                                 IN  IF c.local_disc = 2
                                     THEN disconnect_conn_locked(c) ELSE c
                      /\ recv_state' = "STATE_RECV_DROP_BUF"
    /\ UNCHANGED <<buf, transport, ni, handed, runs>>

\* recv_req: a new request goes to the target state machine, which drops
\* the buffer
recv_req ==
    /\ recv_state = "STATE_RECV_REQ"
    /\ LET b == [buf EXCEPT !.tgt_state = "STATE_TGT_START",
                            !.type = "BUF_TGT"]
       IN  /\ handed' = Append(handed, Handoff("tgt", b, "recv_req"))
           /\ buf' = [b EXCEPT !.ref = @ - 1]
    /\ recv_state' = "STATE_RECV_REPOST"
    /\ UNCHANGED <<transport, ni, conn, runs>>

\* recv_init: a response goes to the initiator state machine of the buffer
\* its handle names, which drops the receive buffer
recv_init ==
    /\ recv_state = "STATE_RECV_INIT"
    /\ IF ~buf.handle_ok
       THEN /\ recv_state' = "STATE_RECV_DROP_BUF"
            /\ UNCHANGED <<buf, handed>>
       ELSE /\ handed' = Append(handed, Handoff("init", buf, "recv_init"))
            /\ buf' = [buf EXCEPT !.ref = @ - 1]
            /\ recv_state' = "STATE_RECV_REPOST"
    /\ UNCHANGED <<transport, ni, conn, runs>>

\* recv_repost: refill the srq when the room exceeds the threshold; each
\* post may fail
recv_repost ==
    /\ recv_state = "STATE_RECV_REPOST"
    /\ transport = "ib"
    /\ IF MaxSrqWr - ni.num_posted_recv > SrqRepostSize
       THEN \E n \in 0..SrqRepostSize :
              ni' = [ni EXCEPT !.num_posted_recv = @ + n,
                               !.recv_list = @ + n, !.srq = @ + n]
       ELSE ni' = ni
    /\ recv_state' = "STATE_RECV_DONE"
    /\ UNCHANGED <<buf, transport, conn, handed, runs>>

\* A faulty recv_drop_buf that keeps its reference on the buffer.
recv_drop_buf_NoPut ==
    /\ recv_state = "STATE_RECV_DROP_BUF"
    /\ ni' = [ni EXCEPT !.num_recv_drops = @ + 1]
    /\ recv_state' = "STATE_RECV_REPOST"
    /\ UNCHANGED <<buf, transport, conn, handed, runs>>

\* recv_drop_buf: drop the received buffer
recv_drop_buf ==
    /\ recv_state = "STATE_RECV_DROP_BUF"
    /\ buf' = [buf EXCEPT !.ref = @ - 1]
    /\ ni' = [ni EXCEPT !.num_recv_drops = @ + 1]
    /\ recv_state' = "STATE_RECV_REPOST"
    /\ UNCHANGED <<transport, conn, handed, runs>>

\* case STATE_RECV_ERROR of process_recv_rdma and process_recv_mem
recv_error ==
    /\ recv_state = "STATE_RECV_ERROR"
    /\ buf' = [buf EXCEPT !.ref = @ - 1]
    /\ ni' = [ni EXCEPT !.num_recv_errs = @ + 1]
    /\ recv_state' = "IDLE"
    /\ UNCHANGED <<transport, conn, handed, runs>>

\* case STATE_RECV_DONE, and STATE_RECV_REPOST of process_recv_mem
recv_done ==
    /\ \/ recv_state = "STATE_RECV_DONE"
       \/ recv_state = "STATE_RECV_REPOST" /\ transport = "mem"
    /\ recv_state' = "IDLE"
    /\ UNCHANGED <<buf, transport, ni, conn, handed, runs>>

\* post_recv (ptl_buf.c): what the last call returned and did, and, as
\* history, how often the run at hand took its buffer off recv_list
VARIABLES post
postVars == <<post>>

PostInit ==
    post = [ret |-> "none", dels |-> 0, puts |-> 0, second |-> "none",
            decs |-> 0]

\* what fails in a call of post_recv
PostOutcomes == {"buf_alloc", "ibv_post_srq_recv", "ok"}
\* list_del of a buffer that is no longer on the list: the links of the
\* buffer are as the first list_del left them, so that the second changes
\* nothing, or they are poisoned
SecondDel == {"unchanged", "SIGSEGV"}

\* the process has not died in post_recv
RecvAlive == post.second # "SIGSEGV"

\* post_recv: allocate a receive buffer, put it on recv_list and post it to
\* the srq; when the post fails the buffer is taken off the list in the
\* branch of the failure and again at err2
post_recv ==
    /\ recv_state = "IDLE"
    /\ \E out \in PostOutcomes, second \in SecondDel :
         CASE out = "buf_alloc" ->
                /\ second = "unchanged"
                /\ ni' = ni
                /\ post' = [post EXCEPT !.ret = "PTL_FAIL", !.dels = 0,
                                        !.puts = 0, !.second = "none"]
           [] out = "ok" ->
                /\ second = "unchanged"
                /\ ni.srq < MaxSrqWr
                /\ ni' = [ni EXCEPT !.recv_list = @ + 1, !.srq = @ + 1]
                /\ post' = [post EXCEPT !.ret = "PTL_OK", !.dels = 0,
                                        !.puts = 0, !.second = "none"]
           [] out = "ibv_post_srq_recv" ->
                /\ ni' = ni
                /\ post' = [post EXCEPT
                              !.ret = IF second = "SIGSEGV" THEN "none"
                                      ELSE "PTL_FAIL",
                              !.dels = 2,
                              !.puts = IF second = "SIGSEGV" THEN 0 ELSE 1,
                              !.second = second]
    /\ UNCHANGED <<recv_state, buf, transport, conn, handed, runs>>

(***************************************************************************)
(* The data movement calls (ptl_move.c).  A call runs from entry to return *)
(* in one step; the caller then takes the return value.                    *)
(***************************************************************************)
\* ptl_size_t is 64 bits wide; the model keeps SizeBits of them
SizeBits == 5
SizeMod == 2 ^ SizeBits
\* number of XIs the pool of an NI holds
MaxXi == 1
\* md->length, ni->limits.max_msg_size and ni->limits.max_atomic_size of
\* the small configuration
MdLength == 3
MaxMsgSize == 2
MaxAtomicSize == 1

\* ptl_ack_req_t; check_put accepts PTL_NO_ACK_REQ .. PTL_OC_ACK_REQ
PTL_NO_ACK_REQ == 0
PTL_ACK_REQ == 1
PTL_CT_ACK_REQ == 2
PTL_OC_ACK_REQ == 3

\* ptl_op_t and ptl_datatype_t: a value is the place of its name, from 0
ptl_op_t ==
    <<"PTL_MIN", "PTL_MAX", "PTL_SUM", "PTL_PROD", "PTL_LOR", "PTL_LAND",
      "PTL_BOR", "PTL_BAND", "PTL_LXOR", "PTL_BXOR", "PTL_SWAP", "PTL_CSWAP",
      "PTL_CSWAP_NE", "PTL_CSWAP_LE", "PTL_CSWAP_LT", "PTL_CSWAP_GE",
      "PTL_CSWAP_GT", "PTL_MSWAP">>
ptl_datatype_t ==
    <<"PTL_CHAR", "PTL_UCHAR", "PTL_SHORT", "PTL_USHORT", "PTL_INT",
      "PTL_UINT", "PTL_LONG", "PTL_ULONG", "PTL_FLOAT", "PTL_FLOAT_COMPLEX",
      "PTL_DOUBLE", "PTL_DOUBLE_COMPLEX">>
PTL_MIN == 0
PTL_CHAR == 0
PTL_OP_LAST == Len(ptl_op_t)
PTL_DATATYPE_LAST == Len(ptl_datatype_t)
OpName(atom_op) == ptl_op_t[atom_op + 1]
TypeName(atom_type) == ptl_datatype_t[atom_type + 1]
OpOf(name) == CHOOSE i \in 0..(PTL_OP_LAST - 1) : OpName(i) = name
TypeOf(name) == CHOOSE i \in 0..(PTL_DATATYPE_LAST - 1) : TypeName(i) = name

atom_op_info(f, c, a, sw, u) ==
    [float_ok |-> f, complex_ok |-> c, atomic_ok |-> a, swap_ok |-> sw,
     use_operand |-> u]

op_info ==
    [n \in {ptl_op_t[i] : i \in DOMAIN ptl_op_t} |->
       CASE n = "PTL_MIN"      -> atom_op_info(1, 0, 1, 0, 0)
         [] n = "PTL_MAX"      -> atom_op_info(1, 0, 1, 0, 0)
         [] n = "PTL_SUM"      -> atom_op_info(1, 1, 1, 0, 0)
         [] n = "PTL_PROD"     -> atom_op_info(1, 1, 1, 0, 0)
         [] n = "PTL_LOR"      -> atom_op_info(0, 0, 1, 0, 0)
         [] n = "PTL_LAND"     -> atom_op_info(0, 0, 1, 0, 0)
         [] n = "PTL_BOR"      -> atom_op_info(0, 0, 1, 0, 0)
         [] n = "PTL_BAND"     -> atom_op_info(0, 0, 1, 0, 0)
         [] n = "PTL_LXOR"     -> atom_op_info(0, 0, 1, 0, 0)
         [] n = "PTL_BXOR"     -> atom_op_info(0, 0, 1, 0, 0)
         [] n = "PTL_SWAP"     -> atom_op_info(1, 1, 0, 1, 0)
         [] n = "PTL_CSWAP"    -> atom_op_info(1, 1, 0, 1, 1)
         [] n = "PTL_CSWAP_NE" -> atom_op_info(1, 1, 0, 1, 1)
         [] n = "PTL_CSWAP_LE" -> atom_op_info(1, 0, 0, 1, 1)
         [] n = "PTL_CSWAP_LT" -> atom_op_info(1, 0, 0, 1, 1)
         [] n = "PTL_CSWAP_GE" -> atom_op_info(1, 0, 0, 1, 1)
         [] n = "PTL_CSWAP_GT" -> atom_op_info(1, 0, 0, 1, 1)
         [] n = "PTL_MSWAP"    -> atom_op_info(0, 0, 0, 1, 1)]

atom_type_size ==
    [n \in {ptl_datatype_t[i] : i \in DOMAIN ptl_datatype_t} |->
       CASE n \in {"PTL_CHAR", "PTL_UCHAR"} -> 1
         [] n \in {"PTL_SHORT", "PTL_USHORT"} -> 2
         [] n \in {"PTL_INT", "PTL_UINT", "PTL_FLOAT"} -> 4
         [] n \in {"PTL_LONG", "PTL_ULONG", "PTL_FLOAT_COMPLEX",
                   "PTL_DOUBLE"} -> 8
         [] n = "PTL_DOUBLE_COMPLEX" -> 16]

VARIABLES check_build, limits, mds, refs, xi_pool, started, mpc, last
moveVars == <<check_build, limits, mds, refs, xi_pool, started, mpc, last>>

\* local_offset + length in ptl_size_t
SizeAdd(x, y) == (x + y) % SizeMod

check_put(md, local_offset, length, ack_req) ==
    IF SizeAdd(local_offset, length) > md.length THEN "PTL_ARG_INVALID"
    ELSE IF ack_req < PTL_NO_ACK_REQ \/ ack_req > PTL_OC_ACK_REQ
         THEN "PTL_ARG_INVALID"
    ELSE IF ack_req = PTL_ACK_REQ /\ ~md.eq THEN "PTL_ARG_INVALID"
    ELSE IF ack_req = PTL_CT_ACK_REQ /\ ~md.ct THEN "PTL_ARG_INVALID"
    ELSE IF length > limits.max_msg_size THEN "PTL_ARG_INVALID"
    ELSE "PTL_OK"

\* check_get without the test of length against max_msg_size
check_get_NoLimit(md, local_offset, length) ==
    IF SizeAdd(local_offset, length) > md.length THEN "PTL_ARG_INVALID"
    ELSE "PTL_OK"

check_get(md, local_offset, length) ==
    IF SizeAdd(local_offset, length) > md.length THEN "PTL_ARG_INVALID"
    ELSE IF length > limits.max_msg_size THEN "PTL_ARG_INVALID"
    ELSE "PTL_OK"

\* the tests on atom_type without the complex column
check_type_NoComplex(atom_op, atom_type) ==
    IF atom_type < PTL_CHAR \/ atom_type >= PTL_DATATYPE_LAST
    THEN "PTL_ARG_INVALID"
    ELSE IF TypeName(atom_type) \in {"PTL_FLOAT", "PTL_DOUBLE"}
            /\ op_info[OpName(atom_op)].float_ok = 0
         THEN "PTL_ARG_INVALID"
    ELSE "PTL_OK"

\* the tests on atom_type that check_atomic and check_swap share
check_type(atom_op, atom_type) ==
    IF atom_type < PTL_CHAR \/ atom_type >= PTL_DATATYPE_LAST
    THEN "PTL_ARG_INVALID"
    ELSE IF TypeName(atom_type) \in {"PTL_FLOAT", "PTL_DOUBLE"}
            /\ op_info[OpName(atom_op)].float_ok = 0
         THEN "PTL_ARG_INVALID"
    ELSE IF TypeName(atom_type) \in {"PTL_FLOAT_COMPLEX", "PTL_DOUBLE_COMPLEX"}
            /\ op_info[OpName(atom_op)].complex_ok = 0
         THEN "PTL_ARG_INVALID"
    ELSE "PTL_OK"

\* check_atomic without the test of PTL_CT_ACK_REQ against md->ct
check_atomic_NoCtAck(md, local_offset, length, ack_req, atom_op, atom_type) ==
    IF SizeAdd(local_offset, length) > md.length THEN "PTL_ARG_INVALID"
    ELSE IF length > limits.max_atomic_size THEN "PTL_ARG_INVALID"
    ELSE IF ack_req < PTL_NO_ACK_REQ \/ ack_req > PTL_OC_ACK_REQ
         THEN "PTL_ARG_INVALID"
    ELSE IF ack_req = PTL_ACK_REQ /\ ~md.eq THEN "PTL_ARG_INVALID"
    ELSE IF atom_op < PTL_MIN \/ atom_op >= PTL_OP_LAST
         THEN "PTL_ARG_INVALID"
    ELSE IF op_info[OpName(atom_op)].atomic_ok = 0 THEN "PTL_ARG_INVALID"
    ELSE check_type(atom_op, atom_type)

check_atomic(md, local_offset, length, ack_req, atom_op, atom_type) ==
    IF SizeAdd(local_offset, length) > md.length THEN "PTL_ARG_INVALID"
    ELSE IF length > limits.max_atomic_size THEN "PTL_ARG_INVALID"
    ELSE IF ack_req < PTL_NO_ACK_REQ \/ ack_req > PTL_OC_ACK_REQ
         THEN "PTL_ARG_INVALID"
    ELSE IF ack_req = PTL_ACK_REQ /\ ~md.eq THEN "PTL_ARG_INVALID"
    ELSE IF ack_req = PTL_CT_ACK_REQ /\ ~md.ct THEN "PTL_ARG_INVALID"
    ELSE IF atom_op < PTL_MIN \/ atom_op >= PTL_OP_LAST
         THEN "PTL_ARG_INVALID"
    ELSE IF op_info[OpName(atom_op)].atomic_ok = 0 THEN "PTL_ARG_INVALID"
    ELSE check_type(atom_op, atom_type)

\* check_swap without the test of length against the size of the type
check_swap_NoOperand(md, local_offset, length, atom_op, atom_type) ==
    IF SizeAdd(local_offset, length) > md.length THEN "PTL_ARG_INVALID"
    ELSE IF length > limits.max_atomic_size THEN "PTL_ARG_INVALID"
    ELSE IF atom_op < PTL_MIN \/ atom_op >= PTL_OP_LAST
         THEN "PTL_ARG_INVALID"
    ELSE IF op_info[OpName(atom_op)].swap_ok = 0 THEN "PTL_ARG_INVALID"
    ELSE IF check_type(atom_op, atom_type) # "PTL_OK" THEN "PTL_ARG_INVALID"
    ELSE "PTL_OK"

check_swap(md, local_offset, length, atom_op, atom_type) ==
    IF SizeAdd(local_offset, length) > md.length THEN "PTL_ARG_INVALID"
    ELSE IF length > limits.max_atomic_size THEN "PTL_ARG_INVALID"
    ELSE IF atom_op < PTL_MIN \/ atom_op >= PTL_OP_LAST
         THEN "PTL_ARG_INVALID"
    ELSE IF op_info[OpName(atom_op)].swap_ok = 0 THEN "PTL_ARG_INVALID"
    ELSE IF check_type(atom_op, atom_type) # "PTL_OK" THEN "PTL_ARG_INVALID"
    ELSE IF op_info[OpName(atom_op)].use_operand = 1
            /\ length > atom_type_size[TypeName(atom_type)]
         THEN "PTL_ARG_INVALID"
    ELSE "PTL_OK"

\* get_gbl, md_get, ct_get, xi_alloc and their releases, on the reference
\* counts r
get_gbl(r) == [r EXCEPT !.gbl = @ + 1]
gbl_put(r) == [r EXCEPT !.gbl = @ - 1]
\* an md_get that takes no reference
md_get_NoRef(r, h) == r
md_get(r, h) == [r EXCEPT !.md[h] = @ + 1]
\* an error path that keeps its MD reference
md_put_Leak(r, h) == r
md_put(r, h) == [r EXCEPT !.md[h] = @ - 1]
ct_get(r) == [r EXCEPT !.ct = @ + 1]
ct_put(r) == [r EXCEPT !.ct = @ - 1]
xi_alloc(r) == [r EXCEPT !.xi = @ + 1]

\* a handle names a live MD or md_get fails; a pool gives an XI or
\* xi_alloc fails
MdHandles == {1, 2, 3}
md_ok(h) == h \in MdHandles
xi_ok(r, a) == a.xi_ok /\ r.xi < MaxXi
to_ni(h) == mds[h].ni

\* what a call leaves behind: the counts, the return value, the XI it
\* handed on
Outcome(r, ret, xi) == [refs |-> r, ret |-> ret, xi |-> xi]

\* a fresh XI
NewXi ==
    [operation |-> 0, ack_req |-> 0, put_md |-> 0, get_md |-> 0,
     rlength |-> 0, put_offset |-> 0, get_offset |-> 0, atom_op |-> 0,
     atom_type |-> 0, operand |-> 0, threshold |-> 0,
     state |-> "STATE_INIT_START", sink |-> "process_init"]

XiPut(a, sink) ==
    [NewXi EXCEPT !.operation = OP_PUT, !.ack_req = a.ack_req,
                  !.put_md = a.md, !.rlength = a.length,
                  !.put_offset = a.local_offset, !.sink = sink,
                  !.threshold = IF sink = "post_ct" THEN a.threshold ELSE 0]

PtlPutRes(r, a) ==
    IF ~a.gbl_ok THEN Outcome(r, "PTL_NO_INIT", <<>>)
    ELSE LET r1 == get_gbl(r)
             err1(x, e) == Outcome(gbl_put(x), e, <<>>)
         IN  IF ~md_ok(a.md) THEN err1(r1, "PTL_ARG_INVALID")
             ELSE LET r2 == md_get(r1, a.md)
                      err2(x, e) == err1(md_put(x, a.md), e)
                      chk == check_put(mds[a.md], a.local_offset, a.length,
                                       a.ack_req)
                  IN  IF check_build /\ chk # "PTL_OK" THEN err2(r2, chk)
                      ELSE IF ~xi_ok(r2, a) THEN err2(r2, "PTL_NO_SPACE")
                      ELSE Outcome(gbl_put(xi_alloc(r2)), "PTL_OK",
                                   <<XiPut(a, "process_init")>>)

PtlTriggeredPutRes(r, a) ==
    IF ~a.gbl_ok THEN Outcome(r, "PTL_NO_INIT", <<>>)
    ELSE LET r1 == get_gbl(r)
             err1(x, e) == Outcome(gbl_put(x), e, <<>>)
         IN  IF ~md_ok(a.md) THEN err1(r1, "PTL_ARG_INVALID")
             ELSE LET r2 == md_get(r1, a.md)
                      err2(x, e) == err1(md_put(x, a.md), e)
                  IN  IF ~a.ct_ok THEN err2(r2, "PTL_ARG_INVALID")
                      ELSE LET r3 == ct_get(r2)
                               err3(x, e) == err2(ct_put(x), e)
                               chk == check_put(mds[a.md], a.local_offset,
                                                a.length, a.ack_req)
                           IN  IF check_build /\ chk # "PTL_OK"
                               THEN err3(r3, chk)
                               ELSE IF ~xi_ok(r3, a)
                                    THEN err3(r3, "PTL_NO_SPACE")
                               ELSE Outcome(gbl_put(ct_put(xi_alloc(r3))),
                                            "PTL_OK", <<XiPut(a, "post_ct")>>)

XiGet(a, sink) ==
    [NewXi EXCEPT !.operation = OP_GET, !.get_md = a.md,
                  !.rlength = a.length, !.get_offset = a.local_offset,
                  !.sink = sink,
                  !.threshold = IF sink = "post_ct" THEN a.threshold ELSE 0]

PtlGetRes(r, a) ==
    IF ~a.gbl_ok THEN Outcome(r, "PTL_NO_INIT", <<>>)
    ELSE LET r1 == get_gbl(r)
             err1(x, e) == Outcome(gbl_put(x), e, <<>>)
         IN  IF ~md_ok(a.md) THEN err1(r1, "PTL_ARG_INVALID")
             ELSE LET r2 == md_get(r1, a.md)
                      err2(x, e) == err1(md_put(x, a.md), e)
                      chk == check_get(mds[a.md], a.local_offset, a.length)
                  IN  IF check_build /\ chk # "PTL_OK" THEN err2(r2, chk)
                      ELSE IF ~xi_ok(r2, a) THEN err2(r2, "PTL_NO_SPACE")
                      ELSE Outcome(gbl_put(xi_alloc(r2)), "PTL_OK",
                                   <<XiGet(a, "process_init")>>)

PtlTriggeredGetRes(r, a) ==
    IF ~a.gbl_ok THEN Outcome(r, "PTL_NO_INIT", <<>>)
    ELSE LET r1 == get_gbl(r)
             err1(x, e) == Outcome(gbl_put(x), e, <<>>)
         IN  IF ~md_ok(a.md) THEN err1(r1, "PTL_ARG_INVALID")
             ELSE LET r2 == md_get(r1, a.md)
                      err2(x, e) == err1(md_put(x, a.md), e)
                  IN  IF ~a.ct_ok THEN err2(r2, "PTL_ARG_INVALID")
                      ELSE LET r3 == ct_get(r2)
                               err3(x, e) == err2(ct_put(x), e)
                               chk == check_get(mds[a.md], a.local_offset,
                                                a.length)
                           IN  IF check_build /\ chk # "PTL_OK"
                               THEN err3(r3, chk)
                               ELSE IF ~xi_ok(r3, a)
                                    THEN err3(r3, "PTL_NO_SPACE")
                               ELSE Outcome(gbl_put(ct_put(xi_alloc(r3))),
                                            "PTL_OK", <<XiGet(a, "post_ct")>>)

XiAtomic(a, sink) ==
    [NewXi EXCEPT !.operation = OP_ATOMIC, !.ack_req = a.ack_req,
                  !.put_md = a.md, !.rlength = a.length,
                  !.put_offset = a.local_offset, !.atom_op = a.atom_op,
                  !.atom_type = a.atom_type, !.sink = sink,
                  !.threshold = IF sink = "post_ct" THEN a.threshold ELSE 0]

PtlAtomicRes(r, a) ==
    IF ~a.gbl_ok THEN Outcome(r, "PTL_NO_INIT", <<>>)
    ELSE LET r1 == get_gbl(r)
             err1(x, e) == Outcome(gbl_put(x), e, <<>>)
         IN  IF ~md_ok(a.md) THEN err1(r1, "PTL_ARG_INVALID")
             ELSE LET r2 == md_get(r1, a.md)
                      err2(x, e) == err1(md_put(x, a.md), e)
                      chk == check_atomic(mds[a.md], a.local_offset, a.length,
                                          a.ack_req, a.atom_op, a.atom_type)
                  IN  IF check_build /\ chk # "PTL_OK" THEN err2(r2, chk)
                      ELSE IF ~xi_ok(r2, a) THEN err2(r2, "PTL_NO_SPACE")
                      ELSE Outcome(gbl_put(xi_alloc(r2)), "PTL_OK",
                                   <<XiAtomic(a, "process_init")>>)

PtlTriggeredAtomicRes(r, a) ==
    IF ~a.gbl_ok THEN Outcome(r, "PTL_NO_INIT", <<>>)
    ELSE LET r1 == get_gbl(r)
             err1(x, e) == Outcome(gbl_put(x), e, <<>>)
         IN  IF ~md_ok(a.md) THEN err1(r1, "PTL_ARG_INVALID")
             ELSE LET r2 == md_get(r1, a.md)
                      err2(x, e) == err1(md_put(x, a.md), e)
                  IN  IF ~a.ct_ok THEN err2(r2, "PTL_ARG_INVALID")
                      ELSE LET r3 == ct_get(r2)
                               err3(x, e) == err2(ct_put(x), e)
                               chk == check_atomic(mds[a.md], a.local_offset,
                                                   a.length, a.ack_req,
                                                   a.atom_op, a.atom_type)
                           IN  IF check_build /\ chk # "PTL_OK"
                               THEN err3(r3, chk)
                               ELSE IF ~xi_ok(r3, a)
                                    THEN err3(r3, "PTL_NO_SPACE")
                               ELSE Outcome(gbl_put(ct_put(xi_alloc(r3))),
                                            "PTL_OK",
                                            <<XiAtomic(a, "post_ct")>>)

XiFetch(a, sink) ==
    [NewXi EXCEPT !.operation = OP_FETCH, !.put_md = a.put_md,
                  !.get_md = a.md, !.rlength = a.length,
                  !.put_offset = a.put_offset,
                  !.get_offset = a.local_offset, !.atom_op = a.atom_op,
                  !.atom_type = a.atom_type, !.sink = sink,
                  !.threshold = IF sink = "post_ct" THEN a.threshold ELSE 0]

\* the argument checks of PtlFetchAtomic and PtlTriggeredFetchAtomic
check_fetch(a) ==
    LET c1 == check_get(mds[a.md], a.local_offset, a.length)
        c2 == check_atomic(mds[a.put_md], a.put_offset, a.length,
                           PTL_NO_ACK_REQ, a.atom_op, a.atom_type)
    IN  IF c1 # "PTL_OK" THEN c1
        ELSE IF c2 # "PTL_OK" THEN c2
        ELSE IF to_ni(a.put_md) # to_ni(a.md) THEN "PTL_ARG_INVALID"
        ELSE "PTL_OK"

PtlFetchAtomicRes(r, a) ==
    IF ~a.gbl_ok THEN Outcome(r, "PTL_NO_INIT", <<>>)
    ELSE LET r1 == get_gbl(r)
             err1(x, e) == Outcome(gbl_put(x), e, <<>>)
         IN  IF ~md_ok(a.md) THEN err1(r1, "PTL_ARG_INVALID")
             ELSE LET r2 == md_get(r1, a.md)
                      err2(x, e) == err1(md_put(x, a.md), e)
                  IN  IF ~md_ok(a.put_md) THEN err2(r2, "PTL_ARG_INVALID")
                      ELSE LET r3 == md_get(r2, a.put_md)
                               err3(x, e) == err2(md_put(x, a.put_md), e)
                               chk == check_fetch(a)
                           IN  IF check_build /\ chk # "PTL_OK"
                               THEN err3(r3, chk)
                               ELSE IF ~xi_ok(r3, a)
                                    THEN err3(r3, "PTL_NO_SPACE")
                               ELSE Outcome(gbl_put(xi_alloc(r3)), "PTL_OK",
                                            <<XiFetch(a, "process_init")>>)

PtlTriggeredFetchAtomicRes(r, a) ==
    IF ~a.gbl_ok THEN Outcome(r, "PTL_NO_INIT", <<>>)
    ELSE LET r1 == get_gbl(r)
             err1(x, e) == Outcome(gbl_put(x), e, <<>>)
         IN  IF ~md_ok(a.md) THEN err1(r1, "PTL_ARG_INVALID")
             ELSE LET r2 == md_get(r1, a.md)
                      err2(x, e) == err1(md_put(x, a.md), e)
                  IN  IF ~md_ok(a.put_md) THEN err2(r2, "PTL_ARG_INVALID")
                      ELSE LET r3 == md_get(r2, a.put_md)
                               err3(x, e) == err2(md_put(x, a.put_md), e)
                           IN  IF ~a.ct_ok THEN err3(r3, "PTL_ARG_INVALID")
                               ELSE LET r4 == ct_get(r3)
                                        err4(x, e) == err3(ct_put(x), e)
                                        chk == check_fetch(a)
                                    IN  IF check_build /\ chk # "PTL_OK"
                                        THEN err4(r4, chk)
                                        ELSE IF ~xi_ok(r4, a)
                                             THEN err4(r4, "PTL_NO_SPACE")
                                        ELSE Outcome(
                                               gbl_put(ct_put(xi_alloc(r4))),
                                               "PTL_OK",
                                               <<XiFetch(a, "post_ct")>>)

XiSwap(a, u, sink) ==
    [NewXi EXCEPT !.operation = OP_SWAP, !.put_md = a.put_md,
                  !.get_md = a.md, !.rlength = a.length,
                  !.put_offset = a.put_offset,
                  !.get_offset = a.local_offset, !.atom_op = a.atom_op,
                  !.atom_type = a.atom_type, !.operand = u, !.sink = sink,
                  !.threshold = IF sink = "post_ct" THEN a.threshold ELSE 0]

\* the argument checks of PtlSwap and PtlTriggeredSwap
check_swap_call(a) ==
    LET c1 == check_get(mds[a.md], a.local_offset, a.length)
        c2 == check_swap(mds[a.put_md], a.put_offset, a.length, a.atom_op,
                         a.atom_type)
    IN  IF c1 # "PTL_OK" THEN c1
        ELSE IF c2 # "PTL_OK" THEN c2
        ELSE IF to_ni(a.put_md) # to_ni(a.md) THEN "PTL_ARG_INVALID"
        ELSE "PTL_OK"

\* op_info[atom_op].use_operand as the call reads it: outside the table
\* the read gives any value
use_operand(atom_op) ==
    IF atom_op >= PTL_MIN /\ atom_op < PTL_OP_LAST
    THEN {op_info[OpName(atom_op)].use_operand}
    ELSE {0, 1}

\* u is what the call read in op_info[atom_op].use_operand; get_operand
\* always returns PTL_OK
PtlSwapRes(r, a, u) ==
    IF ~a.gbl_ok THEN Outcome(r, "PTL_NO_INIT", <<>>)
    ELSE LET r1 == get_gbl(r)
             err1(x, e) == Outcome(gbl_put(x), e, <<>>)
         IN  IF ~md_ok(a.md) THEN err1(r1, "PTL_ARG_INVALID")
             ELSE LET r2 == md_get(r1, a.md)
                      err2(x, e) == err1(md_put(x, a.md), e)
                  IN  IF ~md_ok(a.put_md) THEN err2(r2, "PTL_ARG_INVALID")
                      ELSE LET r3 == md_get(r2, a.put_md)
                               err3(x, e) == err2(md_put(x, a.put_md), e)
                               chk == check_swap_call(a)
                           IN  IF check_build /\ chk # "PTL_OK"
                               THEN err3(r3, chk)
                               ELSE IF ~xi_ok(r3, a)
                                    THEN err3(r3, "PTL_NO_SPACE")
                               ELSE Outcome(gbl_put(xi_alloc(r3)), "PTL_OK",
                                            <<XiSwap(a, u, "process_init")>>)

PtlTriggeredSwapRes(r, a, u) ==
    IF ~a.gbl_ok THEN Outcome(r, "PTL_NO_INIT", <<>>)
    ELSE LET r1 == get_gbl(r)
             err1(x, e) == Outcome(gbl_put(x), e, <<>>)
         IN  IF ~md_ok(a.md) THEN err1(r1, "PTL_ARG_INVALID")
             ELSE LET r2 == md_get(r1, a.md)
                      err2(x, e) == err1(md_put(x, a.md), e)
                  IN  IF ~md_ok(a.put_md) THEN err2(r2, "PTL_ARG_INVALID")
                      ELSE LET r3 == md_get(r2, a.put_md)
                               err3(x, e) == err2(md_put(x, a.put_md), e)
                           IN  IF ~a.ct_ok THEN err3(r3, "PTL_ARG_INVALID")
                               ELSE LET r4 == ct_get(r3)
                                        err4(x, e) == err3(ct_put(x), e)
                                        chk == check_swap_call(a)
                                    IN  IF check_build /\ chk # "PTL_OK"
                                        THEN err4(r4, chk)
                                        ELSE IF ~xi_ok(r4, a)
                                             THEN err4(r4, "PTL_NO_SPACE")
                                        ELSE Outcome(
                                               gbl_put(ct_put(xi_alloc(r4))),
                                               "PTL_OK",
                                               <<XiSwap(a, u, "post_ct")>>)

\* the arguments of a call, and what the environment does to it: get_gbl
\* fails (library not initialised), the trigger CT handle is stale, the XI
\* pool is empty
NoArg ==
    [gbl_ok |-> TRUE, ct_ok |-> TRUE, xi_ok |-> TRUE, md |-> 1, put_md |-> 0,
     local_offset |-> 0, put_offset |-> 0, length |-> 0,
     ack_req |-> PTL_NO_ACK_REQ, atom_op |-> 0, atom_type |-> 0,
     threshold |-> 0]
NoLast == [api |-> "none", arg |-> NoArg, ret |-> "none", before |-> <<>>]

\* a call with arguments a, and the same call with each failure of the
\* environment; the failures are drawn for the calls of the shortest length
Env(a) ==
    IF a.length = 1
    THEN {a, [a EXCEPT !.gbl_ok = FALSE], [a EXCEPT !.xi_ok = FALSE]}
    ELSE {a}
EnvTriggered(a) ==
    IF a.length = 1 THEN Env(a) \cup {[a EXCEPT !.ct_ok = FALSE]} ELSE {a}

Offsets == {0, SizeMod - 1}
AckReqs == (PTL_NO_ACK_REQ - 1)..(PTL_OC_ACK_REQ + 1)

\* the small argument space: the handles name no MD, an MD with an EQ and
\* an MD with a CT; the lengths run up to one past the MD; every ack_req
\* is tried at offset 0 and every offset without an ack
SmallLengths == 1..(MdLength + 1)
OffsetAcks ==
    {<<0, k>> : k \in AckReqs} \cup {<<o, PTL_NO_ACK_REQ>> : o \in Offsets}
AtomicOps ==
    {<<OpOf("PTL_SUM"), TypeOf("PTL_INT")>>,
     <<OpOf("PTL_SWAP"), TypeOf("PTL_INT")>>}
SwapOps == AtomicOps \cup {<<OpOf("PTL_CSWAP"), TypeOf("PTL_CHAR")>>}
SmallOneBase ==
    {[NoArg EXCEPT !.md = h, !.local_offset = ok[1], !.length = n,
                   !.ack_req = ok[2]] :
       <<h, ok, n>> \in (0..2) \X OffsetAcks \X SmallLengths}
SmallAtomicBase ==
    {[a EXCEPT !.atom_op = p[1], !.atom_type = p[2]] :
       <<a, p>> \in SmallOneBase \X AtomicOps}
SmallTwoBase ==
    {[NoArg EXCEPT !.md = h[1], !.put_md = h[2], !.put_offset = o,
                   !.length = n, !.atom_op = p[1], !.atom_type = p[2]] :
       <<h, o, n, p>> \in ((0..1) \X {0, 1, 3}) \X Offsets \X SmallLengths
                            \X SwapOps}
SmallOne == UNION {Env(a) : a \in SmallOneBase}
SmallOneTriggered == UNION {EnvTriggered(a) : a \in SmallOneBase}
SmallGet == {a \in SmallOne : a.ack_req = PTL_NO_ACK_REQ}
SmallGetTriggered == {a \in SmallOneTriggered : a.ack_req = PTL_NO_ACK_REQ}
SmallAtomic == UNION {Env(a) : a \in SmallAtomicBase}
SmallAtomicTriggered == UNION {EnvTriggered(a) : a \in SmallAtomicBase}
SmallSwap == UNION {Env(a) : a \in SmallTwoBase}
SmallSwapTriggered == UNION {EnvTriggered(a) : a \in SmallTwoBase}
SmallFetch == {a \in SmallSwap : <<a.atom_op, a.atom_type>> \in AtomicOps}
SmallFetchTriggered ==
    {a \in SmallSwapTriggered : <<a.atom_op, a.atom_type>> \in AtomicOps}

\* the matrix argument space: every (atom_op, atom_type) pair, in and out
\* of range, with lengths around every type size
MaxTypeSize ==
    CHOOSE n \in {atom_type_size[t] : t \in DOMAIN atom_type_size} :
      \A t \in DOMAIN atom_type_size : atom_type_size[t] <= n
MatrixOps == ((PTL_MIN - 1)..PTL_OP_LAST) \X ((PTL_CHAR - 1)..PTL_DATATYPE_LAST)
MatrixOne ==
    {[NoArg EXCEPT !.length = 1, !.atom_op = p[1], !.atom_type = p[2]] :
       p \in MatrixOps}
MatrixTwo == {[a EXCEPT !.put_md = 1] : a \in MatrixOne}
\* the swap operations on every type, with the length at the size of the
\* type and one past it
MatrixSwapOps ==
    {p \in (PTL_MIN..(PTL_OP_LAST - 1)) \X (PTL_CHAR..(PTL_DATATYPE_LAST - 1)) :
       op_info[OpName(p[1])].swap_ok = 1}
MatrixSwap ==
    MatrixTwo \cup
    {[NoArg EXCEPT !.put_md = 1, !.atom_op = pd[1][1], !.atom_type = pd[1][2],
                   !.length = atom_type_size[TypeName(pd[1][2])] + pd[2]] :
       pd \in MatrixSwapOps \X {0, 1}}

\* the MDs an allocated XI names in xi->put_md and xi->get_md (0: none)
XiMds(xi) == [put_md |-> xi.put_md, get_md |-> xi.get_md]

\* the call api with arguments a ran from entry to return and left out;
\* xi_pool is the bag of the XIs allocated and not freed
Call(api, a, out) ==
    /\ mpc = "idle"
    /\ refs' = out.refs
    /\ xi_pool' = IF out.xi = <<>> THEN xi_pool
                  ELSE xi_pool (+) SetToBag({XiMds(out.xi[1])})
    /\ started' = out.xi
    /\ mpc' = "returned"
    /\ last' = [api |-> api, arg |-> a, ret |-> out.ret, before |-> <<refs>>]
    /\ UNCHANGED <<check_build, limits, mds>>

PtlPut(a) == Call("PtlPut", a, PtlPutRes(refs, a))
PtlTriggeredPut(a) == Call("PtlTriggeredPut", a, PtlTriggeredPutRes(refs, a))
PtlGet(a) == Call("PtlGet", a, PtlGetRes(refs, a))
PtlTriggeredGet(a) == Call("PtlTriggeredGet", a, PtlTriggeredGetRes(refs, a))
PtlAtomic(a) == Call("PtlAtomic", a, PtlAtomicRes(refs, a))
PtlTriggeredAtomic(a) ==
    Call("PtlTriggeredAtomic", a, PtlTriggeredAtomicRes(refs, a))
PtlFetchAtomic(a) == Call("PtlFetchAtomic", a, PtlFetchAtomicRes(refs, a))
PtlTriggeredFetchAtomic(a) ==
    Call("PtlTriggeredFetchAtomic", a, PtlTriggeredFetchAtomicRes(refs, a))
PtlSwap(a) ==
    \E u \in use_operand(a.atom_op) :
      Call("PtlSwap", a, PtlSwapRes(refs, a, u))
PtlTriggeredSwap(a) ==
    \E u \in use_operand(a.atom_op) :
      Call("PtlTriggeredSwap", a, PtlTriggeredSwapRes(refs, a, u))

\* the caller has the return value; the XI handed on is the business of
\* the initiator state machine from here
MoveReturn ==
    /\ mpc = "returned"
    /\ mpc' = "idle"
    /\ last' = NoLast
    /\ started' = <<>>
    /\ UNCHANGED <<check_build, limits, mds, refs, xi_pool>>

\* MDs 1 and 2 belong to one NI, MD 3 to another; MD 1 has an EQ, MD 2 a CT
MdTable(len) ==
    [h \in MdHandles |->
       [length |-> len, eq |-> h # 2, ct |-> h # 1,
        ni |-> IF h = 3 THEN 2 ELSE 1]]

MoveInitWith(build, len, msg, atomic) ==
    /\ check_build = build
    /\ limits = [max_msg_size |-> msg, max_atomic_size |-> atomic]
    /\ mds = MdTable(len)
    /\ refs = [gbl |-> 0, md |-> [h \in MdHandles |-> 0], ct |-> 0, xi |-> 0]
    /\ xi_pool = EmptyBag
    /\ started = <<>>
    /\ mpc = "idle"
    /\ last = NoLast

MoveIdle == MoveInitWith(TRUE, MdLength, MaxMsgSize, MaxAtomicSize)
MoveInit ==
    \E build \in BOOLEAN :
      MoveInitWith(build, MdLength, MaxMsgSize, MaxAtomicSize)
CheckInit ==
    \E build \in BOOLEAN :
      MoveInitWith(build, MaxTypeSize + 1, MaxTypeSize + 1, MaxTypeSize + 1)

(***************************************************************************)
(* Counting events.  CT 1 is the trigger CT of the triggered calls, CT 2   *)
(* another CT of the same NI.  PtlTriggeredCTSet and PtlTriggeredCTInc are *)
(* those of ptl_move.c; post_ct and PtlCTInc are not among the sources and *)
(* follow the specification: a triggered operation is appended to the list *)
(* of its CT, and every ct_inc scans the list.                             *)
(***************************************************************************)
\* the greatest value a counter is driven to, short of the wrap
MaxCt == 2

VARIABLES ct_event, ct_list, ct_fired, ct_call
ctVars == <<ct_event, ct_list, ct_fired, ct_call>>

CtHandles == {1, 2}
TrigCt == 1
\* the counter values of the model: the small ones and the last before the
\* wrap of ptl_size_t
CtVals == (0..MaxCt) \cup {SizeMod - 1}
CtFailVals == {0, 1}
CtEvents == [success : CtVals, failure : CtFailVals]
CtInBounds(ev) == ev \in CtEvents
CtTotal(c) == ct_event[c].success + ct_event[c].failure

CtNoCall ==
    [pc |-> "idle", api |-> "none", ct |-> 0, ev |-> [success |-> 0, failure |-> 0],
     trig |-> 0, threshold |-> 0, ret |-> "none"]
CtCall(api, c, ev, trig, T, pc, ret) ==
    [pc |-> pc, api |-> api, ct |-> c, ev |-> ev, trig |-> trig,
     threshold |-> T, ret |-> ret]

CtInit ==
    /\ ct_event = [c \in CtHandles |-> [success |-> 0, failure |-> 0]]
    /\ ct_list = <<>>
    /\ ct_fired = <<>>
    /\ ct_call = CtNoCall

\* the scan of the triggered list of the specification: the operations
\* whose threshold the total has reached, and the others
CtReached(list, total) == SelectSeq(list, LAMBDA xi : xi.threshold <= total)
CtPending(list, total) == SelectSeq(list, LAMBDA xi : xi.threshold > total)
CtStart(list, total) ==
    [i \in 1..Len(CtReached(list, total)) |->
       [xi |-> CtReached(list, total)[i], total |-> total]]

\* post_ct(xi, ct) at the end of a triggered call that succeeded, and the
\* return of the call
post_ct ==
    /\ mpc = "returned"
    /\ started # <<>>
    /\ started[1].sink = "post_ct"
    /\ IF CtTotal(TrigCt) >= started[1].threshold
       THEN /\ ct_fired' = Append(ct_fired,
                                  [xi |-> started[1], total |-> CtTotal(TrigCt)])
            /\ UNCHANGED ct_list
       ELSE /\ ct_list' = Append(ct_list, started[1])
            /\ UNCHANGED ct_fired
    /\ mpc' = "idle"
    /\ last' = NoLast
    /\ started' = <<>>
    /\ UNCHANGED <<check_build, limits, mds, refs, xi_pool, ct_event, ct_call>>

\* PtlCTInc of the specification: the add and the scan of the list
PtlCTInc(c, ev) ==
    /\ ct_call.pc = "idle"
    /\ LET new == [success |-> (ct_event[c].success + ev.success) % SizeMod,
                   failure |-> (ct_event[c].failure + ev.failure) % SizeMod]
           total == new.success + new.failure
       IN  /\ CtInBounds(new)
           /\ ct_event' = [ct_event EXCEPT ![c] = new]
           /\ IF c = TrigCt
              THEN /\ ct_fired' = ct_fired \o CtStart(ct_list, total)
                   /\ ct_list' = CtPending(ct_list, total)
              ELSE UNCHANGED <<ct_list, ct_fired>>
    /\ ct_call' = CtCall("PtlCTInc", c, ev, 0, 0, "returned", "PTL_OK")
    /\ UNCHANGED moveVars

\* ct_get on a CT handle: 0 names no CT
ct_ok(c) == c \in CtHandles

\* PtlTriggeredCTSet(ct_handle, new_ct, trig_ct_handle, threshold):
\* ct->event = new_ct, whatever the trigger CT and the threshold
PtlTriggeredCTSet(gbl_ok, c, new_ct, trig, T) ==
    /\ ct_call.pc = "idle"
    /\ IF ~gbl_ok
       THEN /\ ct_call' = CtCall("PtlTriggeredCTSet", c, new_ct, trig, T,
                                 "returned", "PTL_NO_INIT")
            /\ UNCHANGED <<ct_event, refs>>
       ELSE IF ~ct_ok(c)
       THEN /\ ct_call' = CtCall("PtlTriggeredCTSet", c, new_ct, trig, T,
                                 "returned", "PTL_ARG_INVALID")
            /\ refs' = gbl_put(get_gbl(refs))
            /\ UNCHANGED ct_event
       ELSE /\ ct_event' = [ct_event EXCEPT ![c] = new_ct]
            /\ refs' = gbl_put(ct_put(ct_get(get_gbl(refs))))
            /\ ct_call' = CtCall("PtlTriggeredCTSet", c, new_ct, trig, T,
                                 "returned", "PTL_OK")
    /\ UNCHANGED <<ct_list, ct_fired>>
    /\ UNCHANGED <<check_build, limits, mds, xi_pool, started, mpc, last>>

\* PtlTriggeredCTInc with the first add replaced by a store
PtlTriggeredCTInc_Store(gbl_ok, c, increment, trig, T) ==
    /\ ct_call.pc = "idle"
    /\ gbl_ok /\ ct_ok(c)
    /\ ct_event' = [ct_event EXCEPT ![c].success = increment.success]
    /\ refs' = ct_get(get_gbl(refs))
    /\ ct_call' = CtCall("PtlTriggeredCTInc", c, increment, trig, T,
                         "add_failure", "none")
    /\ UNCHANGED <<ct_list, ct_fired>>
    /\ UNCHANGED <<check_build, limits, mds, xi_pool, started, mpc, last>>

\* PtlTriggeredCTInc(ct_handle, increment, trig_ct_handle, threshold) up to
\* __sync_fetch_and_add(&ct->event.success, increment.success), whatever
\* the trigger CT and the threshold
PtlTriggeredCTInc(gbl_ok, c, increment, trig, T) ==
    /\ ct_call.pc = "idle"
    /\ IF ~gbl_ok
       THEN /\ ct_call' = CtCall("PtlTriggeredCTInc", c, increment, trig, T,
                                 "returned", "PTL_NO_INIT")
            /\ UNCHANGED <<ct_event, refs>>
       ELSE IF ~ct_ok(c)
       THEN /\ ct_call' = CtCall("PtlTriggeredCTInc", c, increment, trig, T,
                                 "returned", "PTL_ARG_INVALID")
            /\ refs' = gbl_put(get_gbl(refs))
            /\ UNCHANGED ct_event
       ELSE /\ CtInBounds(
                 [success |-> (ct_event[c].success + increment.success)
                                % SizeMod,
                  failure |-> (ct_event[c].failure + increment.failure)
                                % SizeMod])
            /\ ct_event' =
                 [ct_event EXCEPT ![c].success = (@ + increment.success)
                                                   % SizeMod]
            /\ refs' = ct_get(get_gbl(refs))
            /\ ct_call' = CtCall("PtlTriggeredCTInc", c, increment, trig, T,
                                 "add_failure", "none")
    /\ UNCHANGED <<ct_list, ct_fired>>
    /\ UNCHANGED <<check_build, limits, mds, xi_pool, started, mpc, last>>

\* __sync_fetch_and_add(&ct->event.failure, increment.failure), the wake of
\* the waiters, ct_put, gbl_put and the return
PtlTriggeredCTIncFailure ==
    /\ ct_call.pc = "add_failure"
    /\ ct_event' =
         [ct_event EXCEPT ![ct_call.ct].failure = (@ + ct_call.ev.failure)
                                                    % SizeMod]
    /\ refs' = gbl_put(ct_put(refs))
    /\ ct_call' = [ct_call EXCEPT !.pc = "returned", !.ret = "PTL_OK"]
    /\ UNCHANGED <<ct_list, ct_fired>>
    /\ UNCHANGED <<check_build, limits, mds, xi_pool, started, mpc, last>>

\* the caller of a CT call has the return value
CtReturn ==
    /\ ct_call.pc = "returned"
    /\ ct_call' = CtNoCall
    /\ UNCHANGED <<ct_event, ct_list, ct_fired>>
    /\ UNCHANGED moveVars

\* the arguments of the CT calls
CtIncrements ==
    {[success |-> 1, failure |-> 0], [success |-> 0, failure |-> 1],
     [success |-> 1, failure |-> 1]}
CtNewEvents ==
    {[success |-> 0, failure |-> 0], [success |-> 1, failure |-> 1],
     [success |-> SizeMod - 1, failure |-> 0]}
CtTargets == {<<TRUE, 0>>, <<FALSE, 1>>} \cup {<<TRUE, c>> : c \in CtHandles}
CtThresholds == 1..MaxCt
\* the triggered puts of the CT model: one valid put for each threshold,
\* and its failures
CtPuts ==
    UNION {EnvTriggered([NoArg EXCEPT !.length = 1, !.threshold = T]) :
             T \in CtThresholds}

(***************************************************************************)
(* Library initialisation of the shared-memory transport (init.c).  Each   *)
(* thread runs PtlInit one memory operation at a step; ndebug is the build *)
(* without assertions, in which a failed assert is not evaluated.          *)
(***************************************************************************)
\* the threads of the process and the calls of PtlInit they make in all
NumThreads == 3
MaxInitCalls == 4

VARIABLES ndebug, init_ref_count, comm_pad, done_initializing, failure,
          init_pc, init_ret, init_last, init_held, init_calls
initVars == <<ndebug, init_ref_count, comm_pad, done_initializing, failure,
              init_pc, init_ret, init_last, init_held, init_calls>>

Threads == 1..NumThreads
AttemptOutcomes == {"ok", "shm_open", "ftruncate", "mmap"}

PtlInitStart(nd) ==
    /\ ndebug = nd
    /\ init_ref_count = 0
    /\ comm_pad = "NULL"
    /\ done_initializing = 0
    /\ failure = 0
    /\ init_pc = [t \in Threads |-> "idle"]
    /\ init_ret = [t \in Threads |-> "none"]
    /\ init_last = "none"
    /\ init_held = 0
    /\ init_calls = 0

\* a failed assert aborts the process
LibRunning == \A t \in Threads : init_pc[t] # "aborted"

PtlInitIdle == PtlInitStart(FALSE)

\* race = PtlInternalAtomicInc(&init_ref_count, 1), and the branch on it;
\* the first caller asserts that there is no communication pad yet
PtlInit(t) ==
    /\ LibRunning
    /\ init_pc[t] = "idle"
    /\ init_calls < MaxInitCalls
    /\ init_calls' = init_calls + 1
    /\ init_ref_count' = init_ref_count + 1
    /\ LET race == init_ref_count IN
         init_pc' = [init_pc EXCEPT ![t] =
                       IF race = 0
                         THEN IF comm_pad # "NULL" /\ ~ndebug
                                THEN "aborted" ELSE "attempt"
                         ELSE "spin"]
    /\ init_ret' = [init_ret EXCEPT ![t] = "none"]
    /\ UNCHANGED <<ndebug, comm_pad, done_initializing, failure, init_last,
                   init_held>>

\* shm_open, ftruncate and mmap of the communication pad.  A failed
\* shm_open fails assert(fd >= 0); the call goes to exit_fail_mmap or
\* exit_fail_shm on a failure and releases the waiting calls on success.
PtlInitAttempt(t, outcome) ==
    /\ LibRunning
    /\ init_pc[t] = "attempt"
    /\ comm_pad' = CASE outcome = "ok" -> "mapped"
                     [] outcome = "mmap" -> "MAP_FAILED"
                     [] OTHER -> comm_pad
    /\ done_initializing' = IF outcome = "ok" THEN 1 ELSE done_initializing
    /\ init_pc' = [init_pc EXCEPT ![t] =
                     CASE outcome = "ok" -> "returned"
                       [] outcome = "shm_open" /\ ~ndebug -> "aborted"
                       [] OTHER -> "exit_fail_shm"]
    /\ init_ret' = [init_ret EXCEPT ![t] =
                      IF outcome = "ok" THEN "PTL_OK" ELSE @]
    /\ init_last' = IF outcome = "ok" THEN "PTL_OK" ELSE "PTL_FAIL"
    /\ init_held' = IF outcome = "ok" THEN init_held + 1 ELSE init_held
    /\ UNCHANGED <<ndebug, init_ref_count, failure, init_calls>>

\* exit_fail_shm: failure = 1
PtlInitFailure(t) ==
    /\ LibRunning
    /\ init_pc[t] = "exit_fail_shm"
    /\ failure' = 1
    /\ init_pc' = [init_pc EXCEPT ![t] = "release"]
    /\ UNCHANGED <<ndebug, init_ref_count, comm_pad, done_initializing,
                   init_ret, init_last, init_held, init_calls>>

\* __sync_synchronize(); done_initializing = 1
PtlInitRelease(t) ==
    /\ LibRunning
    /\ init_pc[t] = "release"
    /\ done_initializing' = 1
    /\ init_pc' = [init_pc EXCEPT ![t] = "exit_fail_fast"]
    /\ UNCHANGED <<ndebug, init_ref_count, comm_pad, failure, init_ret,
                   init_last, init_held, init_calls>>

\* while (!done_initializing) ;
PtlInitSpin(t) ==
    /\ LibRunning
    /\ init_pc[t] = "spin"
    /\ done_initializing = 1
    /\ init_pc' = [init_pc EXCEPT ![t] = "test_failure"]
    /\ UNCHANGED <<ndebug, init_ref_count, comm_pad, done_initializing,
                   failure, init_ret, init_last, init_held, init_calls>>

\* if (!failure) return PTL_OK; else goto exit_fail_fast;
PtlInitTest(t) ==
    /\ LibRunning
    /\ init_pc[t] = "test_failure"
    /\ init_pc' = [init_pc EXCEPT ![t] =
                     IF failure = 0 THEN "returned" ELSE "exit_fail_fast"]
    /\ init_ret' = [init_ret EXCEPT ![t] =
                      IF failure = 0 THEN "PTL_OK" ELSE @]
    /\ init_held' = IF failure = 0 THEN init_held + 1 ELSE init_held
    /\ UNCHANGED <<ndebug, init_ref_count, comm_pad, done_initializing,
                   failure, init_last, init_calls>>

\* exit_fail_fast: PtlInternalAtomicInc(&init_ref_count, -1); return PTL_FAIL
PtlInitFailFast(t) ==
    /\ LibRunning
    /\ init_pc[t] = "exit_fail_fast"
    /\ init_ref_count' = init_ref_count - 1
    /\ init_pc' = [init_pc EXCEPT ![t] = "returned"]
    /\ init_ret' = [init_ret EXCEPT ![t] = "PTL_FAIL"]
    /\ UNCHANGED <<ndebug, comm_pad, done_initializing, failure, init_last,
                   init_held, init_calls>>

\* the caller goes on after the return
PtlInitReturn(t) ==
    /\ LibRunning
    /\ init_pc[t] = "returned"
    /\ init_pc' = [init_pc EXCEPT ![t] = "idle"]
    /\ UNCHANGED <<ndebug, init_ref_count, comm_pad, done_initializing,
                   failure, init_ret, init_last, init_held, init_calls>>

\* PtlFini, called once for a PtlInit that returned PTL_OK: the last one
\* unmaps the pad and leaves the pointer as it is
PtlFini(t) ==
    /\ LibRunning
    /\ init_pc[t] = "idle"
    /\ init_held > 0
    /\ init_ref_count > 0
    /\ init_ref_count' = init_ref_count - 1
    /\ init_held' = init_held - 1
    /\ comm_pad' = IF init_ref_count = 1 THEN "unmapped" ELSE comm_pad
    /\ UNCHANGED <<ndebug, done_initializing, failure, init_pc, init_ret,
                   init_last, init_calls>>

(***************************************************************************)
(* Connection setup and teardown (ptl_conn.c) between two NIs, or of one   *)
(* NI with itself.  NI n holds one conn_t, for the NI it connects to; the  *)
(* rdma connection manager delivers the events of an NI in order, and the  *)
(* completion queue the completions of the disconnect message.             *)
(***************************************************************************)
\* width of ptl_nid_t and ptl_pid_t, and the calls of init_connect an NI
\* makes
IdBits == 2
MaxConnects == 2
\* the buffers that wait for the connection of NI 1
MaxBufs == 2
\* the threads that call get_conn, their calls, the conn_t objects the NI
\* can hold, and the map_size of a logical NI
NumGetThreads == 2
MaxGetCalls == 4
MaxConns == 4
MapSize == 2
\* retry_resolve_addr, retry_resolve_route and retry_connect as
\* init_connect sets them
Retries == 3

VARIABLES cm_self, nis, conns, cm_events, cq, disc_sent, cm_log, cm_failed,
          cm_calls, cm_ret, cm_flush, buf_list, wait_pc, park_log, resumed,
          cm_err
cmVars == <<cm_self, nis, conns, cm_events, cq, disc_sent, cm_log,
            cm_failed, cm_calls, cm_ret, cm_flush, buf_list, wait_pc,
            park_log, resumed, cm_err>>
\* the wait list of a conn_t, what its buffers went through, and the error
\* the connection manager reported to the attempt of an NI
waitVars == <<buf_list, wait_pc, park_log, resumed, cm_err>>

NIs == {1, 2}
Bufs == 1..MaxBufs
IdMod == 2 ^ IdBits
Ids == [nid : 0..(IdMod - 1), pid : {0, 1}]

\* the conversion of an unsigned difference to the int compare_id returns
ToInt(d) ==
    LET m == d % IdMod IN IF m >= IdMod \div 2 THEN m - IdMod ELSE m

compare_id(id1, id2) ==
    IF id1.nid # id2.nid
    THEN ToInt(id1.nid - id2.nid)
    ELSE ToInt(id1.pid - id2.pid)

\* the NI the conn_t of n leads to, and the NIs that run
Dest(n) == IF cm_self THEN n ELSE 3 - n
Active(n) == ~cm_self \/ n = 1

\* conn_init
NewConn ==
    [state |-> "CONN_STATE_DISCONNECTED", cm_id |-> "NULL", ctx |-> {},
     ref |-> 1, local_disc |-> 0, remote_disc |-> 0,
     retry_resolve_addr |-> 0, retry_resolve_route |-> 0,
     retry_connect |-> 0]

ConnInitWith(self, id1, id2) ==
    /\ cm_self = self
    /\ nis = [n \in NIs |->
                [id |-> IF n = 1 THEN id1 ELSE id2, shutting_down |-> FALSE,
                 num_conn |-> 0, fini |-> "run"]]
    /\ conns = [n \in NIs |-> NewConn]
    /\ cm_events = [n \in NIs |-> <<>>]
    /\ cq = [n \in NIs |-> {}]
    /\ disc_sent = FALSE
    /\ cm_log = [n \in NIs |-> "none"]
    /\ cm_failed = FALSE
    /\ cm_calls = [n \in NIs |-> 0]
    /\ cm_ret = [n \in NIs |-> "none"]
    /\ cm_flush = [n \in NIs |-> FALSE]
    /\ buf_list = [n \in NIs |-> <<>>]
    /\ wait_pc = [b \in Bufs |-> "new"]
    /\ park_log = [n \in NIs |-> <<>>]
    /\ resumed = [n \in NIs |-> <<>>]
    /\ cm_err = [n \in NIs |-> "none"]

ConnIdle == ConnInitWith(FALSE, [nid |-> 0, pid |-> 0], [nid |-> 1, pid |-> 0])

\* the event at the head of the cm channel of n, and the conn_t its id
\* has as context
EventFor(n, ev) ==
    /\ Active(n)
    /\ ~cm_flush[n]
    /\ conns[n].state # "ABORTED"
    /\ cm_events[n] # <<>>
    /\ Head(cm_events[n]).event = ev
\* an NI that is torn down is no longer in the table of its interface
HasNi(n) == nis[n].fini # "done"
HasConn(n) == HasNi(n) /\ Head(cm_events[n]).id \in conns[n].ctx
CmEvent(ev, id) == [event |-> ev, id |-> id, reason |-> "none", src |-> 0]

\* rdma_get_cm_event takes the head; the handler may raise events
Deliver(evq, n, evs) == [evq EXCEPT ![n] = @ \o evs]
Handled(n) == [cm_events EXCEPT ![n] = Tail(@)]

\* init_connect: called for a conn_t that is disconnected and has no cm_id
init_connect(n, create_ok, resolve_ok) ==
    /\ Active(n)
    /\ conns[n].state = "CONN_STATE_DISCONNECTED"
    /\ conns[n].cm_id = "NULL"
    /\ cm_calls[n] < MaxConnects
    /\ cm_calls' = [cm_calls EXCEPT ![n] = @ + 1]
    /\ IF nis[n].shutting_down
       THEN /\ cm_ret' = [cm_ret EXCEPT ![n] = "PTL_FAIL"]
            /\ UNCHANGED <<conns, cm_events, cm_failed>>
       ELSE IF ~create_ok \/ ~resolve_ok
       THEN \* conn_get, and conn_put on the way out; the cm_id destroyed
            /\ cm_ret' = [cm_ret EXCEPT ![n] = "PTL_FAIL"]
            /\ conns' = [conns EXCEPT ![n].state = "CONN_STATE_DISCONNECTED",
                                      ![n].cm_id = "NULL",
                                      ![n].retry_resolve_addr = Retries,
                                      ![n].retry_resolve_route = Retries,
                                      ![n].retry_connect = Retries]
            /\ cm_failed' = TRUE
            /\ UNCHANGED cm_events
       ELSE /\ cm_ret' = [cm_ret EXCEPT ![n] = "PTL_OK"]
            /\ conns' = [conns EXCEPT ![n].state = "CONN_STATE_RESOLVING_ADDR",
                                      ![n].cm_id = "active",
                                      ![n].ctx = @ \cup {"active"},
                                      ![n].ref = @ + 1,
                                      ![n].retry_resolve_addr = Retries,
                                      ![n].retry_resolve_route = Retries,
                                      ![n].retry_connect = Retries]
            /\ cm_events' = Deliver(cm_events, n,
                                    <<CmEvent("ADDR_RESOLVED", "active")>>)
            /\ UNCHANGED cm_failed
    /\ UNCHANGED <<cm_self, cm_flush, waitVars,
                   nis, cq, disc_sent, cm_log>>

\* process_cm_event, RDMA_CM_EVENT_ADDR_RESOLVED
ADDR_RESOLVED(n, ok) ==
    /\ EventFor(n, "ADDR_RESOLVED")
    /\ IF ~HasConn(n)
       THEN /\ cm_events' = Handled(n)
            /\ UNCHANGED <<conns, cm_failed>>
       ELSE IF conns[n].state # "CONN_STATE_RESOLVING_ADDR"
       THEN /\ conns' = [conns EXCEPT ![n].ref = @ - 1]
            /\ cm_events' = Handled(n)
            /\ UNCHANGED cm_failed
       ELSE IF ok
       THEN /\ conns' = [conns EXCEPT
                           ![n].state = "CONN_STATE_RESOLVING_ROUTE"]
            /\ cm_events' = Deliver(Handled(n), n,
                                    <<CmEvent("ROUTE_RESOLVED", "active")>>)
            /\ UNCHANGED cm_failed
       ELSE /\ conns' = [conns EXCEPT ![n].state = "CONN_STATE_DISCONNECTED",
                                      ![n].cm_id = "NULL",
                                      ![n].ref = @ - 1]
            /\ cm_events' = Handled(n)
            /\ cm_failed' = TRUE
    /\ UNCHANGED <<cm_self, cm_flush, waitVars,
                   nis, cq, disc_sent, cm_log, cm_calls, cm_ret>>

\* process_cm_event, RDMA_CM_EVENT_ROUTE_RESOLVED: rdma_connect sends the
\* request with the id of the NI as private data
ROUTE_RESOLVED(n, ok) ==
    /\ EventFor(n, "ROUTE_RESOLVED")
    /\ IF ~HasConn(n)
       THEN /\ cm_events' = Handled(n)
            /\ UNCHANGED <<conns, cm_failed>>
       ELSE IF conns[n].state # "CONN_STATE_RESOLVING_ROUTE"
       THEN /\ conns' = [conns EXCEPT ![n].ref = @ - 1]
            /\ cm_events' = Handled(n)
            /\ UNCHANGED cm_failed
       ELSE IF ok
       THEN /\ conns' = [conns EXCEPT ![n].state = "CONN_STATE_CONNECTING"]
            /\ cm_events' =
                 Deliver(Handled(n), Dest(n),
                         <<[event |-> "CONNECT_REQUEST", id |-> "listen",
                            reason |-> "none", src |-> n]>>)
            /\ UNCHANGED cm_failed
       ELSE /\ conns' = [conns EXCEPT ![n].state = "CONN_STATE_DISCONNECTED",
                                      ![n].cm_id = "NULL",
                                      ![n].ref = @ - 1]
            /\ cm_events' = Handled(n)
            /\ cm_failed' = TRUE
    /\ UNCHANGED <<cm_self, cm_flush, waitVars,
                   nis, cq, disc_sent, cm_log, cm_calls, cm_ret>>

\* process_cm_event, RDMA_CM_EVENT_ESTABLISHED
ESTABLISHED_CountAll(n) ==
    /\ EventFor(n, "ESTABLISHED")
    /\ cm_events' = Handled(n)
    /\ nis' = [nis EXCEPT ![n].num_conn = @ + 1]
    /\ IF ~HasConn(n)
       THEN UNCHANGED <<conns, cm_flush>>
       ELSE /\ TRUE
            /\ IF conns[n].state = "CONN_STATE_CONNECTING"
               THEN /\ conns' = [conns EXCEPT
                                   ![n].state = "CONN_STATE_CONNECTED"]
                    /\ cm_flush' = [cm_flush EXCEPT ![n] = TRUE]
               ELSE UNCHANGED <<conns, cm_flush>>
    /\ UNCHANGED <<cm_self, waitVars, cq, disc_sent, cm_log, cm_failed,
                   cm_calls, cm_ret>>

ESTABLISHED(n) ==
    /\ EventFor(n, "ESTABLISHED")
    /\ cm_events' = Handled(n)
    /\ IF ~HasConn(n)
       THEN UNCHANGED <<nis, conns, cm_flush>>
       ELSE /\ nis' = [nis EXCEPT ![n].num_conn = @ + 1]
            /\ IF conns[n].state = "CONN_STATE_CONNECTING"
               THEN /\ conns' = [conns EXCEPT
                                   ![n].state = "CONN_STATE_CONNECTED"]
                    /\ cm_flush' = [cm_flush EXCEPT ![n] = TRUE]
               ELSE UNCHANGED <<conns, cm_flush>>
    /\ UNCHANGED <<cm_self, waitVars, cq, disc_sent, cm_log, cm_failed,
                   cm_calls, cm_ret>>

\* accept_connection_request: the conn_t takes the id of the request and
\* an attempt of its own loses its context; rdma_accept establishes the
\* connection on both sides
accept_connection_request(n, from, ok) ==
    IF ok
    THEN /\ conns' = [conns EXCEPT
                        ![n].state = "CONN_STATE_CONNECTING",
                        ![n].ctx = (@ \ {conns[n].cm_id}) \cup {"passive"},
                        ![n].cm_id = "passive",
                        ![n].ref = @ + 1]
         /\ cm_events' =
              IF from = n
              THEN Deliver(Handled(n), n,
                           <<CmEvent("ESTABLISHED", "passive"),
                             CmEvent("ESTABLISHED", "active")>>)
              ELSE Deliver(Deliver(Handled(n), n,
                                   <<CmEvent("ESTABLISHED", "passive")>>),
                           from, <<CmEvent("ESTABLISHED", "active")>>)
         /\ UNCHANGED cm_failed
    ELSE /\ conns' = [conns EXCEPT ![n].state = "CONN_STATE_DISCONNECTED",
                                   ![n].ref = @ + 1]
         /\ cm_events' = Handled(n)
         /\ cm_failed' = TRUE

\* accept_connection_self: the id of the request becomes self_cm_id, with
\* the NI as its context
accept_connection_self(n, ok) ==
    IF ok
    THEN /\ conns' = [conns EXCEPT ![n].state = "CONN_STATE_CONNECTING",
                                   ![n].ref = @ + 1]
         /\ cm_events' = Deliver(Handled(n), n,
                                 <<CmEvent("ESTABLISHED", "passive"),
                                   CmEvent("ESTABLISHED", "active")>>)
         /\ UNCHANGED cm_failed
    ELSE /\ conns' = [conns EXCEPT ![n].state = "CONN_STATE_DISCONNECTED",
                                   ![n].ref = @ + 1]
         /\ cm_events' = Handled(n)
         /\ cm_failed' = TRUE

\* rdma_reject: the requester gets RDMA_CM_EVENT_REJECTED with the reason
reject(n, from, reason) ==
    /\ cm_events' =
         Deliver(Handled(n), from,
                 <<[event |-> "REJECTED", id |-> "active",
                    reason |-> reason, src |-> n]>>)
    /\ UNCHANGED <<conns, cm_failed>>

\* process_connect_request, for a request the peer sent with rdma_connect
process_connect_request(n, ok) ==
    /\ EventFor(n, "CONNECT_REQUEST")
    /\ LET from == Head(cm_events[n]).src
           c == compare_id(nis[from].id, nis[n].id)
       IN  CASE ~HasNi(n) ->
                  /\ reject(n, from, "REJECT_REASON_NO_NI")
                  /\ UNCHANGED cm_log
             [] conns[n].state = "CONN_STATE_CONNECTED" ->
                  /\ reject(n, from, "REJECT_REASON_CONNECTED")
                  /\ UNCHANGED cm_log
             [] conns[n].state = "CONN_STATE_DISCONNECTED" ->
                  /\ accept_connection_request(n, from, ok)
                  /\ UNCHANGED cm_log
             [] conns[n].state = "CONN_STATE_DISCONNECTING" ->
                  /\ conns' = [conns EXCEPT ![n].state = "ABORTED"]
                  /\ UNCHANGED <<cm_events, cm_log, cm_failed>>
             [] OTHER ->
                  IF c > 0
                  THEN /\ accept_connection_request(n, from, ok)
                       /\ cm_log' = [cm_log EXCEPT ![n] = "accept"]
                  ELSE IF c < 0
                  THEN /\ reject(n, from, "REJECT_REASON_CONNECTING")
                       /\ cm_log' = [cm_log EXCEPT ![n] = "reject"]
                  ELSE /\ accept_connection_self(n, ok)
                       /\ cm_log' = [cm_log EXCEPT ![n] = "self"]
    /\ UNCHANGED <<cm_self, cm_flush, waitVars,
                   nis, cq, disc_sent, cm_calls, cm_ret>>

\* process_connect_reject, for a reject of the peer (status 28)
process_connect_reject(n) ==
    /\ EventFor(n, "REJECTED")
    /\ cm_events' = Handled(n)
    /\ IF ~HasConn(n)
       THEN UNCHANGED <<conns, cm_failed>>
       ELSE IF Head(cm_events[n]).reason \in
                 {"REJECT_REASON_CONNECTED", "REJECT_REASON_CONNECTING"}
       THEN UNCHANGED <<conns, cm_failed>>
       ELSE /\ conns' = [conns EXCEPT ![n].state = "CONN_STATE_DISCONNECTED",
                                      ![n].ref = @ - 1]
            /\ cm_failed' = TRUE
    /\ UNCHANGED <<cm_self, cm_flush, waitVars,
                   nis, cq, disc_sent, cm_log, cm_calls, cm_ret>>

\* rdma_disconnect of an established connection: both sides get
\* RDMA_CM_EVENT_DISCONNECTED, once
rdma_disconnect(evq, n) ==
    IF disc_sent \/ conns[n].cm_id = "NULL"
    THEN evq
    ELSE IF Dest(n) = n
    THEN Deliver(evq, n, <<CmEvent("DISCONNECTED", conns[n].cm_id)>>)
    ELSE Deliver(Deliver(evq, n, <<CmEvent("DISCONNECTED", conns[n].cm_id)>>),
                 Dest(n),
                 <<CmEvent("DISCONNECTED", conns[Dest(n)].cm_id)>>)

\* process_cm_event, RDMA_CM_EVENT_DISCONNECTED
DISCONNECTED(n) ==
    /\ EventFor(n, "DISCONNECTED")
    /\ IF ~HasConn(n)
       THEN /\ cm_events' = Handled(n)
            /\ UNCHANGED <<nis, conns, disc_sent>>
       ELSE IF conns[n].state = "CONN_STATE_DISCONNECTED"
       THEN /\ conns' = [conns EXCEPT ![n].state = "ABORTED"]
            /\ UNCHANGED <<nis, cm_events, disc_sent>>
       ELSE /\ cm_events' =
                 IF conns[n].state # "CONN_STATE_DISCONNECTING"
                 THEN rdma_disconnect(Handled(n), n) ELSE Handled(n)
            /\ disc_sent' =
                 (disc_sent \/ conns[n].state # "CONN_STATE_DISCONNECTING")
            /\ conns' = [conns EXCEPT ![n].state = "CONN_STATE_DISCONNECTED"]
            /\ nis' = [nis EXCEPT ![n].num_conn = @ - 1]
    /\ UNCHANGED <<cm_self, cm_flush, waitVars,
                   cq, cm_log, cm_failed, cm_calls, cm_ret>>

\* the teardown of an NI begins: shutting_down is set
ni_shutdown(n) ==
    /\ Active(n)
    /\ nis[n].fini = "run"
    /\ conns[n].state # "ABORTED"
    /\ nis' = [nis EXCEPT ![n].shutting_down = TRUE, ![n].fini = "disconnect"]
    /\ UNCHANGED <<cm_self, cm_flush, waitVars,
                   conns, cm_events, cq, disc_sent, cm_log,
                   cm_failed, cm_calls, cm_ret>>

\* initiate_disconnect_all up to its wait loop: initiate_disconnect_one
\* and send_disconnect_msg for the conn_t of the NI; the message has a
\* send completion here and arrives at the peer, unless buf_alloc fails
initiate_disconnect_all(n, buf_ok) ==
    /\ nis[n].fini = "disconnect"
    /\ ~cm_flush[n]
    /\ conns[n].state # "ABORTED"
    /\ CASE conns[n].state = "CONN_STATE_DISCONNECTED" ->
              /\ nis' = [nis EXCEPT ![n].fini = "wait"]
              /\ UNCHANGED <<conns, cq, cm_failed>>
         [] conns[n].state = "CONN_STATE_CONNECTED" ->
              /\ nis' = [nis EXCEPT ![n].fini = "wait"]
              /\ conns' = [conns EXCEPT ![n].local_disc = 1]
              /\ cq' = IF buf_ok
                       THEN [m \in NIs |->
                               cq[m] \cup (IF m = n THEN {"send"} ELSE {})
                                     \cup (IF m = Dest(n) THEN {"recv"}
                                           ELSE {})]
                       ELSE cq
              /\ cm_failed' = (cm_failed \/ ~buf_ok)
         [] OTHER ->
              /\ conns' = [conns EXCEPT ![n].state = "ABORTED"]
              /\ UNCHANGED <<nis, cq, cm_failed>>
    /\ UNCHANGED <<cm_self, cm_flush, waitVars,
                   cm_events, disc_sent, cm_log, cm_calls, cm_ret>>

\* the wait loop of initiate_disconnect_all leaves
wait_num_conn(n) ==
    /\ nis[n].fini = "wait"
    /\ conns[n].state # "ABORTED"
    /\ nis[n].num_conn = 0
    /\ nis' = [nis EXCEPT ![n].fini = "done"]
    /\ UNCHANGED <<cm_self, cm_flush, waitVars,
                   conns, cm_events, cq, disc_sent, cm_log,
                   cm_failed, cm_calls, cm_ret>>

\* disconnect_conn_locked with its rdma_disconnect
DisconnectConn(n, c) ==
    /\ conns' = [conns EXCEPT ![n] = disconnect_conn_locked(c)]
    /\ cm_events' = IF c.state \in {"CONN_STATE_CONNECTING",
                                    "CONN_STATE_CONNECTED",
                                    "CONN_STATE_RESOLVING_ROUTE"}
                    THEN rdma_disconnect(cm_events, n) ELSE cm_events
    /\ disc_sent' = (disc_sent \/ (c.state \in {"CONN_STATE_CONNECTING",
                                                "CONN_STATE_CONNECTED",
                                                "CONN_STATE_RESOLVING_ROUTE"}
                                     /\ c.cm_id # "NULL"))

\* send_comp of the disconnect message of n
disc_send_comp(n) ==
    /\ "send" \in cq[n]
    /\ ~cm_flush[n]
    /\ conns[n].state # "ABORTED"
    /\ cq' = [cq EXCEPT ![n] = @ \ {"send"}]
    /\ LET c == [conns[n] EXCEPT !.local_disc = 2]
       IN  IF c.remote_disc # 0
           THEN DisconnectConn(n, c)
           ELSE /\ conns' = [conns EXCEPT ![n] = c]
                /\ UNCHANGED <<cm_events, disc_sent>>
    /\ UNCHANGED <<cm_self, cm_flush, waitVars,
                   nis, cm_log, cm_failed, cm_calls, cm_ret>>

\* recv_packet of the disconnect message of the peer
disc_recv_packet(n) ==
    /\ "recv" \in cq[n]
    /\ ~cm_flush[n]
    /\ conns[n].state # "ABORTED"
    /\ cq' = [cq EXCEPT ![n] = @ \ {"recv"}]
    /\ LET c == [conns[n] EXCEPT !.remote_disc = 1]
       IN  IF c.local_disc = 2
           THEN DisconnectConn(n, c)
           ELSE /\ conns' = [conns EXCEPT ![n] = c]
                /\ UNCHANGED <<cm_events, disc_sent>>
    /\ UNCHANGED <<cm_self, cm_flush, waitVars,
                   nis, cm_log, cm_failed, cm_calls, cm_ret>>

\* the types of the buffers that wait, and the function that resumes one
BufType(b) == IF b % 2 = 1 THEN "BUF_INIT" ELSE "BUF_TGT"
Resume(type) == IF type = "BUF_TGT" THEN "process_tgt" ELSE "process_init"

\* a buffer of n finds the conn_t to its peer not connected
wait_conn(n, b) ==
    /\ Active(n)
    /\ wait_pc[b] = "new"
    /\ conns[n].state \notin {"CONN_STATE_CONNECTED", "ABORTED"}
    /\ wait_pc' = [wait_pc EXCEPT ![b] = "wait"]
    /\ UNCHANGED <<cm_self, nis, conns, cm_events, cq, disc_sent, cm_log,
                   cm_failed, cm_calls, cm_ret, cm_flush, buf_list, park_log,
                   resumed, cm_err>>

\* and goes to the tail of buf_list, under wait_list_lock
wait_conn_park(n, b) ==
    /\ Active(n)
    /\ wait_pc[b] = "wait"
    /\ wait_pc' = [wait_pc EXCEPT ![b] = "parked"]
    /\ buf_list' = [buf_list EXCEPT
                      ![n] = Append(@, [buf |-> b, type |-> BufType(b)])]
    /\ park_log' = [park_log EXCEPT
                      ![n] = Append(@, [buf |-> b, flushing |-> cm_flush[n]])]
    /\ UNCHANGED <<cm_self, nis, conns, cm_events, cq, disc_sent, cm_log,
                   cm_failed, cm_calls, cm_ret, cm_flush, resumed, cm_err>>

\* flush_pending_xi_xt, one turn of its loop: the first buffer leaves the
\* list under wait_list_lock and is resumed with the lock released; the
\* function returns when it finds the list empty
flush_pending_xi_xt_Last(n) ==
    /\ cm_flush[n]
    /\ IF buf_list[n] = <<>>
       THEN /\ cm_flush' = [cm_flush EXCEPT ![n] = FALSE]
            /\ UNCHANGED <<buf_list, wait_pc, resumed>>
       ELSE LET k == Len(buf_list[n])
                b == buf_list[n][k]
            IN  /\ buf_list' = [buf_list EXCEPT ![n] = SubSeq(@, 1, k - 1)]
                /\ resumed' = [resumed EXCEPT
                                 ![n] = Append(@, [buf |-> b.buf,
                                                   fn |-> Resume(b.type)])]
                /\ wait_pc' = [wait_pc EXCEPT ![b.buf] = "resumed"]
                /\ UNCHANGED cm_flush
    /\ UNCHANGED <<cm_self, nis, conns, cm_events, cq, disc_sent, cm_log,
                   cm_failed, cm_calls, cm_ret, park_log, cm_err>>

flush_pending_xi_xt(n) ==
    /\ cm_flush[n]
    /\ IF buf_list[n] = <<>>
       THEN /\ cm_flush' = [cm_flush EXCEPT ![n] = FALSE]
            /\ UNCHANGED <<buf_list, wait_pc, resumed>>
       ELSE LET b == Head(buf_list[n])
            IN  /\ buf_list' = [buf_list EXCEPT ![n] = Tail(@)]
                /\ resumed' = [resumed EXCEPT
                                 ![n] = Append(@, [buf |-> b.buf,
                                                   fn |-> Resume(b.type)])]
                /\ wait_pc' = [wait_pc EXCEPT ![b.buf] = "resumed"]
                /\ UNCHANGED cm_flush
    /\ UNCHANGED <<cm_self, nis, conns, cm_events, cq, disc_sent, cm_log,
                   cm_failed, cm_calls, cm_ret, park_log, cm_err>>

\* the connection manager reports that the resolution n asked for failed:
\* RDMA_CM_EVENT_ADDR_ERROR or RDMA_CM_EVENT_ROUTE_ERROR takes the place
\* of the event of success
ResolveError(ev) ==
    IF ev = "ADDR_RESOLVED" THEN "ADDR_ERROR" ELSE "ROUTE_ERROR"

rdma_resolve_error(n) ==
    /\ Active(n)
    /\ cm_err[n] = "none"
    /\ \E i \in 1..Len(cm_events[n]) :
          /\ cm_events[n][i].event \in {"ADDR_RESOLVED", "ROUTE_RESOLVED"}
          /\ cm_events' =
               [cm_events EXCEPT ![n][i].event = ResolveError(@)]
          /\ cm_err' = [cm_err EXCEPT
                          ![n] = ResolveError(cm_events[n][i].event)]
    /\ UNCHANGED <<cm_self, nis, conns, cq, disc_sent, cm_log, cm_failed,
                   cm_calls, cm_ret, cm_flush, buf_list, wait_pc, park_log,
                   resumed>>

\* the request of rdma_connect does not reach the peer: n gets ev, which
\* is RDMA_CM_EVENT_UNREACHABLE or RDMA_CM_EVENT_CONNECT_ERROR
RemoveAt(seq, i) == SubSeq(seq, 1, i - 1) \o SubSeq(seq, i + 1, Len(seq))

rdma_connect_error(n, ev) ==
    /\ Active(n)
    /\ cm_err[n] = "none"
    /\ \E i \in 1..Len(cm_events[Dest(n)]) :
          /\ cm_events[Dest(n)][i].event = "CONNECT_REQUEST"
          /\ cm_events[Dest(n)][i].src = n
          /\ cm_events' =
               Deliver([cm_events EXCEPT ![Dest(n)] = RemoveAt(@, i)], n,
                       <<CmEvent(ev, "active")>>)
    /\ cm_err' = [cm_err EXCEPT ![n] = ev]
    /\ UNCHANGED <<cm_self, nis, conns, cq, disc_sent, cm_log, cm_failed,
                   cm_calls, cm_ret, cm_flush, buf_list, wait_pc, park_log,
                   resumed>>

\* process_cm_event, RDMA_CM_EVENT_CONNECT_ERROR: the context of the cm_id
\* is cleared, the cm_id of the conn_t stays
CONNECT_ERROR(n) ==
    /\ EventFor(n, "CONNECT_ERROR")
    /\ cm_events' = Handled(n)
    /\ IF HasConn(n) /\ conns[n].state # "CONN_STATE_DISCONNECTED"
       THEN conns' = [conns EXCEPT ![n].state = "CONN_STATE_DISCONNECTED",
                                   ![n].ctx = @ \ {conns[n].cm_id},
                                   ![n].ref = @ - 1]
       ELSE UNCHANGED conns
    /\ UNCHANGED <<cm_self, cm_flush, waitVars,
                   nis, cq, disc_sent, cm_log, cm_failed, cm_calls, cm_ret>>

\* process_cm_event, default: an event that has no case is logged
Unexpected == {"ADDR_ERROR", "ROUTE_ERROR", "UNREACHABLE"}

cm_event_default(n) ==
    /\ \E ev \in Unexpected : EventFor(n, ev)
    /\ cm_events' = Handled(n)
    /\ UNCHANGED <<cm_self, cm_flush, waitVars,
                   nis, conns, cq, disc_sent, cm_log, cm_failed, cm_calls,
                   cm_ret>>

\* the ids of two NIs, the second the greater: the NIs are alike
IdGreater(a, b) == a.nid > b.nid \/ (a.nid = b.nid /\ a.pid > b.pid)
IdPairs == {p \in Ids \X Ids : IdGreater(p[2], p[1])}

(***************************************************************************)
(* compare_id on its own (ptl_conn.c): the ids of three processes and the  *)
(* results of comparing them.                                              *)
(***************************************************************************)
VARIABLES cmp_ids, cmp_res
cmpVars == <<cmp_ids, cmp_res>>

NoIds == <<[nid |-> 0, pid |-> 0], [nid |-> 0, pid |-> 0],
           [nid |-> 0, pid |-> 0]>>
CmpIdle == cmp_ids = NoIds /\ cmp_res = <<>>
CmpInit == cmp_ids \in Ids \X Ids \X Ids /\ cmp_res = <<>>

\* the comparisons of every two of the three ids
CompareIds ==
    /\ cmp_res = <<>>
    /\ cmp_res' = [i \in 1..3 |->
                     [j \in 1..3 |-> compare_id(cmp_ids[i], cmp_ids[j])]]
    /\ UNCHANGED cmp_ids

(***************************************************************************)
(* NIInit and NIFini in the portals processing engine (ppe/ni.c).  The     *)
(* engine serves the commands of its clients one at a time and answers     *)
(* each with an ack.  The pools of an NI and the triggered lists of its    *)
(* CTs are kept apart from the ptl_ppe_ni_t that points to them, since     *)
(* NIFini clears the structure.                                            *)
(***************************************************************************)
\* PTL_PID_MAX, the clients, the NIs of a client, limits->max_cts, the
\* triggered operations on a list, and the commands the engine serves
PidMax == 2
NumClients == 2
NumNis == 2
MaxPpeCts == 2
MaxPending == 1
MaxCommands == 3

VARIABLES ppe_pids, ppe_clients, ppe_nis, ppe_heap, ppe_ack, ppe_last,
          ppe_up, ppe_calls
ppeVars == <<ppe_pids, ppe_clients, ppe_nis, ppe_heap, ppe_ack, ppe_last,
             ppe_up, ppe_calls>>

PTL_PID_ANY == PidMax
Clients == 1..NumClients
NiIndex == 1..NumNis
Pids == 0..(PidMax - 1)
PpeCts == 1..MaxPpeCts

\* a ptl_ppe_ni_t after memset(ni, 0, ...)
NiZero ==
    [limits_ptr |-> "NULL", limits |-> "NULL", client_ptr |-> "NULL",
     pools |-> "NULL", pid |-> 0]
\* what the pointers of an NI lead to: the limits of the client, the six
\* pools, and per CT its triggered list and its failure count
HeapNone ==
    [max_cts |-> 0, pools |-> "none",
     lists |-> [i \in PpeCts |-> "none"],
     pending |-> [i \in PpeCts |-> 0],
     failure |-> [i \in PpeCts |-> 0]]
NoCommand ==
    [call |-> "none", peer |-> 0, ni |-> 0, pid |-> 0, ret |-> "none",
     attach |-> "ok", cleared |-> FALSE, read_cleared |-> FALSE,
     before |-> HeapNone, held |-> -1, pids |-> <<>>]

PpeInit ==
    /\ ppe_pids = [i \in Pids |-> -1]
    /\ ppe_clients = [c \in Clients |-> [pid |-> -1]]
    /\ ppe_nis = [c \in Clients |-> [k \in NiIndex |-> NiZero]]
    /\ ppe_heap = [c \in Clients |-> [k \in NiIndex |-> HeapNone]]
    /\ ppe_ack = [c \in Clients |-> "none"]
    /\ ppe_last = NoCommand
    /\ ppe_up = TRUE
    /\ ppe_calls = 0

\* ppe_xpmem_attach of the limits and of the shared data: both succeed,
\* or the first or the second gives NULL
AttachOutcomes == {"ok", "limits", "shared"}

\* the first free entry of ctx->pids, or -1
FirstFree(pids) ==
    IF \E i \in Pids : pids[i] = -1
    THEN CHOOSE i \in Pids : pids[i] = -1 /\ \A j \in Pids : j < i => pids[j] # -1
    ELSE -1

\* reserve pid of ni_init_impl: the pid of the client, ctx->pids and the
\* value of ret where it leaves to cleanup
ReservePid(peer, pid) ==
    LET held == ppe_clients[peer].pid
        free == FirstFree(ppe_pids)
    IN  IF pid = PTL_PID_ANY
        THEN IF held = -1
             THEN IF free # -1
                  THEN [pid |-> free,
                        pids |-> [ppe_pids EXCEPT ![free] = peer],
                        ret |-> "none"]
                  ELSE [pid |-> -1, pids |-> ppe_pids,
                        ret |-> "PTL_NO_SPACE"]
             ELSE [pid |-> held, pids |-> ppe_pids, ret |-> "none"]
        ELSE IF held = -1
             THEN IF ppe_pids[pid] = -1
                  THEN [pid |-> pid,
                        pids |-> [ppe_pids EXCEPT ![pid] = peer],
                        ret |-> "none"]
                  ELSE [pid |-> -1, pids |-> ppe_pids,
                        ret |-> "PTL_PID_IN_USE"]
             ELSE IF pid # held
                  THEN [pid |-> held, pids |-> ppe_pids,
                        ret |-> "PTL_ARG_INVALID"]
                  ELSE [pid |-> held, pids |-> ppe_pids, ret |-> "none"]

\* ni_init_impl for an NI that has no pools.  The limits and the shared data
\* of the client are attached, the pools allocated and the triggered list
\* of every CT initialised; a failure leaves through cleanup; then the
\* ack is sent, unless no entry is to be had.  ret of ppe_last is the
\* result at send_retval, before ptl_cq_entry_alloc overwrites it.
ni_init_impl(peer, k, pid, max_cts, attach, entry_ok) ==
    /\ ppe_up
    /\ ppe_calls < MaxCommands
    /\ ppe_nis[peer][k].pools = "NULL"
    /\ ppe_calls' = ppe_calls + 1
    /\ LET r == ReservePid(peer, pid)
           ret == IF r.ret # "none" THEN r.ret
                  ELSE IF attach # "ok" THEN "PTL_FAIL"
                  ELSE "none"
       IN  /\ ppe_clients' = [ppe_clients EXCEPT ![peer].pid = r.pid]
           /\ ppe_pids' = r.pids
           /\ IF ret = "none"
              THEN /\ ppe_nis' = [ppe_nis EXCEPT ![peer][k] =
                                    [limits_ptr |-> "attached",
                                     limits |-> "data",
                                     client_ptr |-> "attached",
                                     pools |-> "alloc",
                                     pid |-> r.pid]]
                   /\ ppe_heap' = [ppe_heap EXCEPT ![peer][k] =
                                     [HeapNone EXCEPT
                                        !.max_cts = max_cts,
                                        !.pools = "alloc",
                                        !.lists = [i \in PpeCts |->
                                                     IF i <= max_cts
                                                     THEN "init" ELSE "none"]]]
              ELSE \* cleanup: what was attached is detached and its
                   \* pointer cleared; ni->limits keeps pointing to the
                   \* limits once they were attached
                   /\ ppe_nis' = [ppe_nis EXCEPT
                                    ![peer][k].limits =
                                      IF r.ret = "none" /\ attach = "shared"
                                      THEN "stale" ELSE @]
                   /\ UNCHANGED ppe_heap
           /\ ppe_last' = [NoCommand EXCEPT
                             !.call = "NIInit", !.peer = peer, !.ni = k,
                             !.pid = pid, !.ret = ret,
                             !.attach = attach,
                             !.held = ppe_clients[peer].pid,
                             !.pids = ppe_pids]
           /\ ppe_ack' = [ppe_ack EXCEPT
                            ![peer] = IF entry_ok THEN "PTL_OK" ELSE "none"]
    /\ UNCHANGED ppe_up

\* a triggered operation is appended to the list of a CT of the NI
ppe_triggered_append(peer, k, i) ==
    /\ ppe_up
    /\ ppe_nis[peer][k].pools = "alloc"
    /\ ppe_heap[peer][k].lists[i] = "init"
    /\ ppe_heap[peer][k].pending[i] < MaxPending
    /\ ppe_heap' = [ppe_heap EXCEPT ![peer][k].pending[i] = @ + 1]
    /\ UNCHANGED <<ppe_pids, ppe_clients, ppe_nis, ppe_ack, ppe_last,
                   ppe_up, ppe_calls>>

\* the reads of ni_fini_impl after its memset: ni->limits is NULL, so
\* ni->limits->max_cts reads address 0 plus an offset.  The engine ends
\* with SIGSEGV, or the read gives 0 and the loop makes no turn; a count
\* above 0 would have ptl_double_list_fini work on pointers into page 0.
ClearedReads == {"SIGSEGV", "zero"}

\* ni_fini_impl for an NI that is initialised: detach, memset, then the
\* loop over the CTs and the six calls of free with what the structure
\* holds by then, and the ack
ni_fini_impl(peer, k, entry_ok, read) ==
    /\ ppe_up
    /\ ppe_calls < MaxCommands
    /\ ppe_nis[peer][k].pools = "alloc"
    /\ ppe_calls' = ppe_calls + 1
    /\ IF ~entry_ok
       THEN /\ ppe_last' = [NoCommand EXCEPT
                              !.call = "NIFini", !.peer = peer, !.ni = k,
                              !.ret = "-1", !.before = ppe_heap[peer][k]]
            /\ ppe_ack' = [ppe_ack EXCEPT ![peer] = "none"]
            /\ UNCHANGED <<ppe_nis, ppe_heap, ppe_up>>
       ELSE /\ ppe_nis' = [ppe_nis EXCEPT ![peer][k] = NiZero]
            \* free(NULL) six times: the pools stay allocated
            /\ UNCHANGED ppe_heap
            /\ ppe_last' = [NoCommand EXCEPT
                              !.call = "NIFini", !.peer = peer, !.ni = k,
                              !.ret = IF read = "SIGSEGV" THEN "SIGSEGV"
                                      ELSE "0",
                              !.cleared = TRUE, !.read_cleared = TRUE,
                              !.before = ppe_heap[peer][k]]
            /\ ppe_up' = (read # "SIGSEGV")
            /\ ppe_ack' = [ppe_ack EXCEPT
                             ![peer] = IF read = "SIGSEGV" THEN "none"
                                       ELSE "PTL_OK"]
    /\ UNCHANGED <<ppe_pids, ppe_clients>>

(***************************************************************************)
(* The conversions of header fields and of identifiers (ptl_loc.h), on a   *)
(* little-endian host, the only byte order the header builds for.  A value *)
(* of n bytes is a number below ByteMod ^ n; the bytes are ByteBits wide.  *)
(***************************************************************************)
ByteBits == 1

VARIABLES codec
codecVars == <<codec>>

ByteMod == 2 ^ ByteBits
\* uint16_t, uint32_t and uint64_t
Width(n) == ByteMod ^ n
U16 == 0..(Width(2) - 1)
U32 == 0..(Width(4) - 1)
U64 == 0..(Width(8) - 1)

\* byte i of x, the lowest first
ByteOf(x, i) == (x \div Width(i - 1)) % ByteMod

\* htons and htonl of the C library on a little-endian host; ntohs and
\* ntohl are the same functions
htons(x) == ByteOf(x, 1) * Width(1) + ByteOf(x, 2)
htonl(x) ==
    ByteOf(x, 1) * Width(3) + ByteOf(x, 2) * Width(2)
      + ByteOf(x, 3) * Width(1) + ByteOf(x, 4)
ntohs(x) == htons(x)
ntohl(x) == htonl(x)

cpu_to_be16(x) == htons(x)
be16_to_cpu(x) == htons(x)
cpu_to_be32(x) == htonl(x)
be32_to_cpu(x) == htonl(x)

\* A faulty cpu_to_be64 that does not shift the low half.
cpu_to_be64_NoShift(x) ==
    LET y == htonl(x % Width(4))
        h == htonl((x \div Width(4)) % Width(4))
    IN  IF y >= h THEN y ELSE h

\* y << 32 has no bit in its low half, so the or with the other half is
\* their sum
cpu_to_be64(x) ==
    LET y == htonl(x % Width(4))
    IN  ((y * Width(4)) % Width(8)) + htonl((x \div Width(4)) % Width(4))
be64_to_cpu(x) == cpu_to_be64(x)

cpu_to_le16(x) == x
le16_to_cpu(x) == x
cpu_to_le32(x) == x
le32_to_cpu(x) == x
cpu_to_le64(x) == x
le64_to_cpu(x) == x

nid_to_addr(nid) == htonl(nid)
addr_to_nid(addr) == ntohl(addr)
\* the argument of htons is converted to uint16_t
pid_to_port(pid) == IF pid = PTL_PID_ANY THEN 0 ELSE htons(pid % Width(2))
port_to_pid(port) == ntohs(port)

\* the conversions by name, there and back
Kinds == {"le16", "le32", "le64", "be16", "be32", "be64", "nid", "pid"}
Domain(kind) ==
    CASE kind \in {"le16", "be16", "pid"} -> U16
      [] kind \in {"le32", "be32", "nid"} -> U32
      [] OTHER -> U64
Encode(kind, x) ==
    CASE kind = "le16" -> cpu_to_le16(x)
      [] kind = "le32" -> cpu_to_le32(x)
      [] kind = "le64" -> cpu_to_le64(x)
      [] kind = "be16" -> cpu_to_be16(x)
      [] kind = "be32" -> cpu_to_be32(x)
      [] kind = "be64" -> cpu_to_be64(x)
      [] kind = "nid" -> nid_to_addr(x)
      [] kind = "pid" -> pid_to_port(x)
Decode(kind, w) ==
    CASE kind = "le16" -> le16_to_cpu(w)
      [] kind = "le32" -> le32_to_cpu(w)
      [] kind = "le64" -> le64_to_cpu(w)
      [] kind = "be16" -> be16_to_cpu(w)
      [] kind = "be32" -> be32_to_cpu(w)
      [] kind = "be64" -> be64_to_cpu(w)
      [] kind = "nid" -> addr_to_nid(w)
      [] kind = "pid" -> port_to_pid(w)

CodecIdle == codec = [kind |-> "le16", x |-> 0, wire |-> -1, back |-> -1]
CodecInit ==
    \E kind \in Kinds : \E x \in Domain(kind) :
       codec = [kind |-> kind, x |-> x, wire |-> -1, back |-> -1]

\* the sender converts the value for the wire, the receiver converts it
\* back
CodecEncode ==
    /\ codec.wire = -1
    /\ codec' = [codec EXCEPT !.wire = Encode(codec.kind, codec.x)]
CodecDecode ==
    /\ codec.wire # -1
    /\ codec.back = -1
    /\ codec' = [codec EXCEPT !.back = Decode(codec.kind, codec.wire)]

(***************************************************************************)
(* The blocking NEMESIS queue (nemesis.c) with the condition variable      *)
(* q->trigger and the mutex q->trigger_lock.  One step per access to the   *)
(* shared queue, to q->frustration and to the mutex.  The producers are    *)
(* Producers and their entries Entries, as for the ordered queue.          *)
(***************************************************************************)
\* the spin threshold, 1000 in the code
SpinThreshold == 1
\* number of calls of PtlInternalNEMESISBlockingOffsetDequeue
MaxBlockingCalls == 2

VARIABLES
    bq,           \* NEMESIS_queue: head, tail, shadow_head
    b_next,       \* NEMESIS_entry.next of every entry
    frustration,  \* q->frustration
    trigger_lock, \* q->trigger_lock: "free", or who holds it
    benq,         \* per producer: the position inside its Enqueue call
    bdeq,         \* the consumer: the position inside its Dequeue call
    b_log,        \* history: the entries the blocking Dequeue returned
    b_last,       \* history: what the last step did with q->trigger
    b_spurious    \* history: pthread_cond_wait returned without a signal

blockVars == <<bq, b_next, frustration, trigger_lock, benq, bdeq, b_log,
               b_last, b_spurious>>

BEnqIdle(i) == [pc |-> "idle", idx |-> i, prev |-> NULL]
BDeqIdle(n) == [pc |-> "idle", calls |-> n, retval |-> NULL, second |-> FALSE,
                seen_empty |-> FALSE]

\* PtlInternalNEMESISBlockingInit
PtlInternalNEMESISBlockingInit ==
    /\ bq = [head |-> NULL, tail |-> NULL, shadow_head |-> NULL]
    /\ frustration = 0
    /\ trigger_lock = "free"

BlockInit ==
    /\ PtlInternalNEMESISBlockingInit
    /\ b_next = [e \in Entries |-> NULL]
    /\ benq = [p \in Producers |-> BEnqIdle(1)]
    /\ bdeq = BDeqIdle(0)
    /\ b_log = <<>>
    /\ b_last = "none"
    /\ b_spurious = FALSE

\* the entry a producer is enqueuing
BEnqE(p) == <<p, benq[p].idx>>

\* PtlInternalNEMESISBlockingOffsetEnqueue(q, f) is called:
\* assert(f->next == NULL), then PtlInternalNEMESISOffsetEnqueue swaps
\* the tail
BlockingEnqSwap(p) ==
    /\ benq[p].pc = "idle"
    /\ benq[p].idx <= NumEntries(p)
    /\ b_next[BEnqE(p)] = NULL
    /\ bq' = [bq EXCEPT !.tail = BEnqE(p)]
    /\ benq' = [benq EXCEPT ![p] = [@ EXCEPT !.pc = "link", !.prev = bq.tail]]
    /\ b_last' = "none"
    /\ UNCHANGED <<b_next, frustration, trigger_lock, bdeq, b_log,
                   b_spurious>>

\* PtlInternalNEMESISOffsetEnqueue: the entry is published into head when
\* the previous tail was null, else linked to the previous tail
BlockingEnqLink(p) ==
    /\ benq[p].pc = "link"
    /\ IF benq[p].prev = NULL
       THEN /\ bq' = [bq EXCEPT !.head = BEnqE(p)]
            /\ b_next' = b_next
       ELSE /\ b_next' = [b_next EXCEPT ![benq[p].prev] = BEnqE(p)]
            /\ bq' = bq
    /\ benq' = [benq EXCEPT ![p] = [@ EXCEPT !.pc = "test"]]
    /\ b_last' = "none"
    /\ UNCHANGED <<frustration, trigger_lock, bdeq, b_log, b_spurious>>

\* if (q->frustration), read without the mutex; the call returns when it
\* is 0
BlockingEnqTest(p) ==
    /\ benq[p].pc = "test"
    /\ benq' = [benq EXCEPT ![p] =
                  IF frustration # 0 THEN [@ EXCEPT !.pc = "lock"]
                  ELSE BEnqIdle(@.idx + 1)]
    /\ b_last' = "none"
    /\ UNCHANGED <<bq, b_next, frustration, trigger_lock, bdeq, b_log,
                   b_spurious>>

\* pthread_mutex_lock(&q->trigger_lock)
BlockingEnqLock(p) ==
    /\ benq[p].pc = "lock"
    /\ trigger_lock = "free"
    /\ trigger_lock' = "producer"
    /\ benq' = [benq EXCEPT ![p] = [@ EXCEPT !.pc = "signal"]]
    /\ b_last' = "none"
    /\ UNCHANGED <<bq, b_next, frustration, bdeq, b_log, b_spurious>>

\* A faulty enqueuer that signals without resetting q->frustration and
\* whatever its value.
BlockingEnqSignal_Always(p) ==
    /\ benq[p].pc = "signal"
    /\ bdeq' = IF bdeq.pc = "waiting" THEN [bdeq EXCEPT !.pc = "woken"]
               ELSE bdeq
    /\ b_last' = "signal"
    /\ benq' = [benq EXCEPT ![p] = [@ EXCEPT !.pc = "unlock"]]
    /\ UNCHANGED <<bq, b_next, frustration, trigger_lock, b_log, b_spurious>>

\* if (q->frustration) { q->frustration = 0; pthread_cond_signal } with
\* the mutex held; the signal wakes the consumer when it waits
BlockingEnqSignal(p) ==
    /\ benq[p].pc = "signal"
    /\ IF frustration # 0
       THEN /\ frustration' = 0
            /\ bdeq' = IF bdeq.pc = "waiting"
                       THEN [bdeq EXCEPT !.pc = "woken"] ELSE bdeq
            /\ b_last' = "signal"
       ELSE /\ b_last' = "none"
            /\ UNCHANGED <<frustration, bdeq>>
    /\ benq' = [benq EXCEPT ![p] = [@ EXCEPT !.pc = "unlock"]]
    /\ UNCHANGED <<bq, b_next, trigger_lock, b_log, b_spurious>>

\* pthread_mutex_unlock(&q->trigger_lock); the call returns
BlockingEnqUnlock(p) ==
    /\ benq[p].pc = "unlock"
    /\ trigger_lock' = "free"
    /\ benq' = [benq EXCEPT ![p] = BEnqIdle(@.idx + 1)]
    /\ b_last' = "none"
    /\ UNCHANGED <<bq, b_next, frustration, bdeq, b_log, b_spurious>>

\* PtlInternalNEMESISOffsetDequeue returns r to the blocking Dequeue: the
\* first call goes on to the loop when r is null, the second call asserts
\* that it is not; the blocking Dequeue returns a non-null r
BDeqReturn(r) ==
    IF r # NULL
    THEN /\ bdeq' = BDeqIdle(bdeq.calls)
         /\ b_log' = Append(b_log, r)
    ELSE /\ bdeq' = [bdeq EXCEPT !.pc = IF bdeq.second THEN "abort"
                                        ELSE "loop",
                                 !.retval = NULL]
         /\ b_log' = b_log

\* PtlInternalNEMESISBlockingOffsetDequeue(q) is called
BlockingDeqCall ==
    /\ bdeq.pc = "idle"
    /\ bdeq.calls < MaxBlockingCalls
    /\ bdeq' = [BDeqIdle(bdeq.calls + 1) EXCEPT !.pc = "read_head"]
    /\ b_last' = "none"
    /\ UNCHANGED <<bq, b_next, frustration, trigger_lock, benq, b_log,
                   b_spurious>>

\* PtlInternalNEMESISOffsetDequeue: read head; null is returned as it is
BlockingDeqReadHead ==
    /\ bdeq.pc = "read_head"
    /\ IF bq.head = NULL
       THEN BDeqReturn(NULL)
       ELSE /\ bdeq' = [bdeq EXCEPT !.pc = "check_next", !.retval = bq.head]
            /\ b_log' = b_log
    /\ b_last' = "none"
    /\ UNCHANGED <<bq, b_next, frustration, trigger_lock, benq, b_spurious>>

\* is there a successor
BlockingDeqCheckNext ==
    /\ bdeq.pc = "check_next"
    /\ bdeq' = [bdeq EXCEPT !.pc = IF b_next[bdeq.retval] # NULL
                                   THEN "advance" ELSE "clear_head"]
    /\ b_last' = "none"
    /\ UNCHANGED <<bq, b_next, frustration, trigger_lock, benq, b_log,
                   b_spurious>>

\* advance head to head.next; the entry is returned with next null
BlockingDeqAdvance ==
    /\ bdeq.pc = "advance"
    /\ bq' = [bq EXCEPT !.head = b_next[bdeq.retval]]
    /\ b_next' = [b_next EXCEPT ![bdeq.retval] = NULL]
    /\ BDeqReturn(bdeq.retval)
    /\ b_last' = "none"
    /\ UNCHANGED <<frustration, trigger_lock, benq, b_spurious>>

\* next is null: head becomes null
BlockingDeqClearHead ==
    /\ bdeq.pc = "clear_head"
    /\ bq' = [bq EXCEPT !.head = NULL]
    /\ bdeq' = [bdeq EXCEPT !.pc = "cas_tail"]
    /\ b_last' = "none"
    /\ UNCHANGED <<b_next, frustration, trigger_lock, benq, b_log,
                   b_spurious>>

\* CAS tail from the entry to null; when it fails a successor is being
\* linked
BlockingDeqCasTail ==
    /\ bdeq.pc = "cas_tail"
    /\ IF bq.tail = bdeq.retval
       THEN /\ bq' = [bq EXCEPT !.tail = NULL]
            /\ BDeqReturn(bdeq.retval)
       ELSE /\ bq' = bq
            /\ bdeq' = [bdeq EXCEPT !.pc = "spin"]
            /\ b_log' = b_log
    /\ b_last' = "none"
    /\ UNCHANGED <<b_next, frustration, trigger_lock, benq, b_spurious>>

\* wait for the successor to be linked
BlockingDeqSpin ==
    /\ bdeq.pc = "spin"
    /\ b_next[bdeq.retval] # NULL
    /\ bdeq' = [bdeq EXCEPT !.pc = "advance"]
    /\ b_last' = "none"
    /\ UNCHANGED <<bq, b_next, frustration, trigger_lock, benq, b_log,
                   b_spurious>>

\* while (q->q.shadow_head == NULL && q->q.head == NULL); after the loop
\* retval = PtlInternalNEMESISOffsetDequeue(&q->q)
BlockingDeqLoop ==
    /\ bdeq.pc = "loop"
    /\ bdeq' = IF bq.shadow_head = NULL /\ bq.head = NULL
               THEN [bdeq EXCEPT !.pc = "inc", !.seen_empty = TRUE]
               ELSE [bdeq EXCEPT !.pc = "read_head", !.second = TRUE,
                                 !.seen_empty = FALSE]
    /\ b_last' = "none"
    /\ UNCHANGED <<bq, b_next, frustration, trigger_lock, benq, b_log,
                   b_spurious>>

\* if (PtlInternalAtomicInc(&q->frustration, 1) > 1000): the value before
\* the increment is compared
BlockingDeqInc ==
    /\ bdeq.pc = "inc"
    /\ frustration' = frustration + 1
    /\ bdeq' = [bdeq EXCEPT !.pc = IF frustration > SpinThreshold
                                   THEN "lock" ELSE "loop"]
    /\ b_last' = "none"
    /\ UNCHANGED <<bq, b_next, trigger_lock, benq, b_log, b_spurious>>

\* pthread_mutex_lock(&q->trigger_lock), also on the way out of
\* pthread_cond_wait
BlockingDeqLock ==
    /\ bdeq.pc \in {"lock", "woken"}
    /\ trigger_lock = "free"
    /\ trigger_lock' = "consumer"
    /\ bdeq' = [bdeq EXCEPT !.pc = IF bdeq.pc = "lock" THEN "retest"
                                   ELSE "unlock"]
    /\ b_last' = "none"
    /\ UNCHANGED <<bq, b_next, frustration, benq, b_log, b_spurious>>

\* A faulty consumer that waits without testing q->frustration again under
\* the mutex.
BlockingDeqWait_NoRetest ==
    /\ bdeq.pc = "retest"
    /\ bdeq' = [bdeq EXCEPT !.pc = "waiting"]
    /\ trigger_lock' = "free"
    /\ b_last' = "wait"
    /\ UNCHANGED <<bq, b_next, frustration, benq, b_log, b_spurious>>

\* if (q->frustration > 1000) pthread_cond_wait(&q->trigger,
\* &q->trigger_lock), which releases the mutex and blocks
BlockingDeqWait ==
    /\ bdeq.pc = "retest"
    /\ IF frustration > SpinThreshold
       THEN /\ bdeq' = [bdeq EXCEPT !.pc = "waiting"]
            /\ trigger_lock' = "free"
            /\ b_last' = "wait"
       ELSE /\ bdeq' = [bdeq EXCEPT !.pc = "unlock"]
            /\ trigger_lock' = trigger_lock
            /\ b_last' = "none"
    /\ UNCHANGED <<bq, b_next, frustration, benq, b_log, b_spurious>>

\* pthread_cond_wait may return without a signal
BlockingDeqSpurious ==
    /\ bdeq.pc = "waiting"
    /\ ~b_spurious
    /\ b_spurious' = TRUE
    /\ bdeq' = [bdeq EXCEPT !.pc = "woken"]
    /\ b_last' = "none"
    /\ UNCHANGED <<bq, b_next, frustration, trigger_lock, benq, b_log>>

\* pthread_mutex_unlock(&q->trigger_lock), and the loop goes on
BlockingDeqUnlock ==
    /\ bdeq.pc = "unlock"
    /\ trigger_lock' = "free"
    /\ bdeq' = [bdeq EXCEPT !.pc = "loop"]
    /\ b_last' = "none"
    /\ UNCHANGED <<bq, b_next, frustration, benq, b_log, b_spurious>>

(***************************************************************************)
(* get_conn (ptl_conn.c) of one NI, called by several threads.  A physical *)
(* NI keeps its conn_t in a binary tree under physical.lock; tfind and     *)
(* tsearch walk the tree with compare_conn_id.  The tree of the C library  *)
(* is either a plain binary search tree or a height-balanced one, which    *)
(* rotates a subtree whose two sides differ by two levels.  A logical NI   *)
(* has one conn_t per rank, allocated with the rank table.                 *)
(***************************************************************************)
VARIABLES ni_options, tsearch_kind, conn_objs, physical, get_thr, get_calls
getVars == <<ni_options, tsearch_kind, conn_objs, physical, get_thr, get_calls>>

GetThreads == 1..NumGetThreads
Ranks == 0..MapSize
Leaf == [k |-> 0]
Node(n, l, r) == [k |-> n, l |-> l, r |-> r]

\* conn_alloc and conn_init: a new conn_t holds one reference
conn_alloc(id) == [id |-> id, ref |-> 1, state |-> NewConn.state]

RECURSIVE tfind(_, _)
tfind(t, id) ==
    IF t.k = 0 THEN 0
    ELSE LET c == compare_id(id, conn_objs[t.k].id)
         IN  IF c = 0 THEN t.k
             ELSE IF c < 0 THEN tfind(t.l, id) ELSE tfind(t.r, id)

RECURSIVE Height(_)
Height(t) ==
    IF t.k = 0 THEN 0
    ELSE LET hl == Height(t.l)
             hr == Height(t.r)
         IN  1 + (IF hl > hr THEN hl ELSE hr)

RotateRight(t) == Node(t.l.k, t.l.l, Node(t.k, t.l.r, t.r))
RotateLeft(t) == Node(t.r.k, Node(t.k, t.l, t.r.l), t.r.r)
Rebalance(t) ==
    IF Height(t.l) > Height(t.r) + 1
    THEN IF Height(t.l.l) >= Height(t.l.r)
         THEN RotateRight(t)
         ELSE RotateRight(Node(t.k, RotateLeft(t.l), t.r))
    ELSE IF Height(t.r) > Height(t.l) + 1
    THEN IF Height(t.r.r) >= Height(t.r.l)
         THEN RotateLeft(t)
         ELSE RotateLeft(Node(t.k, t.l, RotateRight(t.r)))
    ELSE t

\* tsearch of a conn_t that tfind did not find: n is the new conn_t, id its
\* id
RECURSIVE tsearch(_, _, _, _)
tsearch(t, n, id, balanced) ==
    IF t.k = 0 THEN Node(n, Leaf, Leaf)
    ELSE LET c == compare_id(id, conn_objs[t.k].id)
             u == IF c < 0
                  THEN Node(t.k, tsearch(t.l, n, id, balanced), t.r)
                  ELSE Node(t.k, t.l, tsearch(t.r, n, id, balanced))
         IN  IF balanced THEN Rebalance(u) ELSE u

GetIdle == [pc |-> "idle", id |-> 0, ret |-> -1]
GetInitWith(logical, balanced) ==
    /\ ni_options = (IF logical THEN "PTL_NI_LOGICAL" ELSE "PTL_NI_PHYSICAL")
    /\ tsearch_kind = (IF balanced THEN "balanced" ELSE "plain")
    /\ conn_objs = IF logical
                   THEN [i \in 1..MapSize |-> conn_alloc(i - 1)]
                   ELSE <<>>
    /\ physical = [lock |-> 0, tree |-> Leaf]
    /\ get_thr = [t \in GetThreads |-> GetIdle]
    /\ get_calls = 0
GetInit == GetInitWith(FALSE, FALSE)

\* get_conn of a logical NI: id.rank is looked up in the rank table
get_conn_rank(t, rank) ==
    /\ get_thr[t].pc = "idle"
    /\ get_calls < MaxGetCalls
    /\ ni_options = "PTL_NI_LOGICAL"
    /\ get_calls' = get_calls + 1
    /\ IF rank >= MapSize
       THEN /\ get_thr' = [get_thr EXCEPT
                             ![t] = [pc |-> "returned", id |-> rank,
                                     ret |-> 0]]
            /\ UNCHANGED conn_objs
       ELSE /\ get_thr' = [get_thr EXCEPT
                             ![t] = [pc |-> "returned", id |-> rank,
                                     ret |-> rank + 1]]
            /\ conn_objs' = [conn_objs EXCEPT ![rank + 1].ref = @ + 1]
    /\ UNCHANGED <<ni_options, tsearch_kind, physical>>

\* get_conn of a physical NI, up to the spin lock
get_conn(t, id) ==
    /\ get_thr[t].pc = "idle"
    /\ get_calls < MaxGetCalls
    /\ ni_options = "PTL_NI_PHYSICAL"
    /\ get_calls' = get_calls + 1
    /\ get_thr' = [get_thr EXCEPT
                     ![t] = [pc |-> "lock", id |-> id, ret |-> -1]]
    /\ UNCHANGED <<ni_options, tsearch_kind, physical, conn_objs>>

\* pthread_spin_lock(&ni->physical.lock)
get_conn_lock(t) ==
    /\ get_thr[t].pc = "lock"
    /\ physical.lock = 0
    /\ physical' = [physical EXCEPT !.lock = t]
    /\ get_thr' = [get_thr EXCEPT ![t].pc = "locked"]
    /\ UNCHANGED <<ni_options, tsearch_kind, conn_objs, get_calls>>

\* the lookup, the insertion of a new conn_t and the unlock
get_conn_locked(t, alloc_ok, tsearch_ok) ==
    /\ get_thr[t].pc = "locked"
    /\ LET id == get_thr[t].id
           found == tfind(physical.tree, id)
           n == Len(conn_objs) + 1
       IN  IF found # 0
           THEN /\ conn_objs' = [conn_objs EXCEPT ![found].ref = @ + 1]
                /\ get_thr' = [get_thr EXCEPT ![t].pc = "returned",
                                              ![t].ret = found]
                /\ physical' = [physical EXCEPT !.lock = 0]
           ELSE IF ~alloc_ok \/ ~tsearch_ok \/ n > MaxConns
           THEN /\ get_thr' = [get_thr EXCEPT ![t].pc = "returned",
                                              ![t].ret = 0]
                /\ physical' = [physical EXCEPT !.lock = 0]
                /\ UNCHANGED conn_objs
           ELSE /\ conn_objs' =
                     Append(conn_objs, [conn_alloc(id) EXCEPT !.ref = @ + 1])
                /\ physical' =
                     [lock |-> 0,
                      tree |-> tsearch(physical.tree, n, id,
                                       tsearch_kind = "balanced")]
                /\ get_thr' = [get_thr EXCEPT ![t].pc = "returned",
                                              ![t].ret = n]
    /\ UNCHANGED <<ni_options, tsearch_kind, get_calls>>

\* the caller takes the result
get_conn_return(t) ==
    /\ get_thr[t].pc = "returned"
    /\ get_thr' = [get_thr EXCEPT ![t] = GetIdle]
    /\ UNCHANGED <<ni_options, tsearch_kind, conn_objs, physical, get_calls>>

(***************************************************************************)
(* The specifications: each runs one part and leaves the others as they    *)
(* were initialised.                                                       *)
(***************************************************************************)
vars == <<nemVars, recvVars, moveVars, ctVars, initVars, cmVars, cmpVars, ppeVars, codecVars, blockVars, nemHist, postVars, getVars>>

NemFrame == UNCHANGED <<recvVars, moveVars, ctVars, initVars, cmVars, cmpVars, ppeVars, codecVars, blockVars, postVars, getVars>>
RecvFrame == UNCHANGED <<nemVars, moveVars, ctVars, initVars, cmVars, cmpVars, ppeVars, codecVars, blockVars, nemHist, getVars>>
MoveFrame == UNCHANGED <<nemVars, recvVars, ctVars, initVars, cmVars, cmpVars, ppeVars, codecVars, blockVars, nemHist, postVars, getVars>>
CtFrame == UNCHANGED <<nemVars, recvVars, initVars, cmVars, cmpVars, ppeVars, codecVars, blockVars, nemHist, postVars, getVars>>
LibFrame == UNCHANGED <<nemVars, recvVars, moveVars, ctVars, cmVars, cmpVars, ppeVars, codecVars, blockVars, nemHist, postVars, getVars>>
ConnFrame == UNCHANGED <<nemVars, recvVars, moveVars, ctVars, initVars, cmpVars, ppeVars, codecVars, blockVars, nemHist, postVars, getVars>>
CmpFrame == UNCHANGED <<nemVars, recvVars, moveVars, ctVars, initVars, cmVars, ppeVars, codecVars, blockVars, nemHist, postVars, getVars>>
PpeFrame == UNCHANGED <<nemVars, recvVars, moveVars, ctVars, initVars, cmVars, cmpVars, codecVars, blockVars, nemHist, postVars, getVars>>
CodecFrame == UNCHANGED <<nemVars, recvVars, moveVars, ctVars, initVars, cmVars, cmpVars, ppeVars, blockVars, nemHist, postVars, getVars>>
BlockFrame == UNCHANGED <<nemVars, recvVars, moveVars, ctVars, initVars, cmVars, cmpVars, ppeVars, codecVars, nemHist, postVars, getVars>>
GetFrame == UNCHANGED <<nemVars, recvVars, moveVars, ctVars, initVars, cmVars, cmpVars, ppeVars, codecVars, blockVars, nemHist, postVars>>

\* the queue, with the val of every Enqueue call recorded
NemNext ==
    \/ \E p \in Producers :
         /\ EnqCall(p) /\ NemFrame
         /\ enq_val' = [enq_val EXCEPT ![EnqE(p)] = enq'[p].v]
    \/ \E p \in Producers : EnqSwapRead(p) /\ NemFrame /\ UNCHANGED enq_val
    \/ \E p \in Producers : EnqSwapCas(p) /\ NemFrame /\ UNCHANGED enq_val
    \/ \E p \in Producers : EnqLink(p) /\ NemFrame /\ UNCHANGED enq_val
    \/ DeqCall /\ NemFrame /\ UNCHANGED enq_val
    \/ DeqReadHead /\ NemFrame /\ UNCHANGED enq_val
    \/ DeqCheckNext /\ NemFrame /\ UNCHANGED enq_val
    \/ DeqAdvance /\ NemFrame /\ UNCHANGED enq_val
    \/ DeqClearNext /\ NemFrame /\ UNCHANGED enq_val
    \/ DeqClearHead /\ NemFrame /\ UNCHANGED enq_val
    \/ DeqCasTail /\ NemFrame /\ UNCHANGED enq_val
    \/ DeqSpin /\ NemFrame /\ UNCHANGED enq_val

\* the progress thread, with the removals from recv_list counted per run
RecvNext ==
    \/ comp_poll /\ RecvFrame
         /\ RecvAlive /\ post' = [post EXCEPT !.decs = 0]
    \/ shmem_recv /\ RecvFrame
         /\ RecvAlive /\ post' = [post EXCEPT !.decs = 0]
    \/ initiate_disconnect_one /\ RecvFrame
         /\ RecvAlive /\ UNCHANGED post
    \/ send_comp /\ RecvFrame
         /\ RecvAlive /\ UNCHANGED post
    \/ rdma_comp /\ RecvFrame
         /\ RecvAlive /\ UNCHANGED post
    \/ recv_packet_rdma /\ RecvFrame
         /\ RecvAlive /\ post' = [post EXCEPT !.decs = @ + 1]
    \/ recv_packet /\ RecvFrame
         /\ RecvAlive /\ UNCHANGED post
    \/ recv_req /\ RecvFrame
         /\ RecvAlive /\ UNCHANGED post
    \/ recv_init /\ RecvFrame
         /\ RecvAlive /\ UNCHANGED post
    \/ recv_repost /\ RecvFrame
         /\ RecvAlive /\ UNCHANGED post
    \/ recv_drop_buf /\ RecvFrame
         /\ RecvAlive /\ UNCHANGED post
    \/ recv_error /\ RecvFrame
         /\ RecvAlive /\ UNCHANGED post
    \/ recv_done /\ RecvFrame
         /\ RecvAlive /\ UNCHANGED post

InitNemesis == NemInit /\ RecvInit /\ GetInit /\ PostInit /\ NemHistInit
      /\ BlockInit
      /\ CodecIdle /\ PpeInit
      /\ CmpIdle
      /\ MoveIdle /\ CtInit
      /\ PtlInitIdle /\ ConnIdle
SpecNemesis == InitNemesis /\ [][NemNext]_vars

NemIdle ==
    /\ copy_order = <<"ptr", "val">>
    /\ PtlInternalOrderedNEMESISInit
    /\ e_next = [e \in Entries |-> nil]
    /\ enq = [p \in Producers |-> EnqIdle(1)]
    /\ deq = DeqIdle(NULL)
    /\ enq_ret = [e \in Entries |-> -1]
    /\ deq_log = <<>>
InitRecv == NemIdle /\ RecvInit /\ GetInit /\ PostInit /\ NemHistInit
      /\ BlockInit
      /\ CodecIdle
      /\ PpeInit /\ CmpIdle
      /\ MoveIdle /\ CtInit
      /\ PtlInitIdle /\ ConnIdle
SpecRecv == InitRecv /\ [][RecvNext]_vars

\* the progress thread and the calls of post_recv between its runs
PostNext ==
    \/ RecvNext
    \/ post_recv /\ RecvFrame /\ RecvAlive
SpecPost == InitRecv /\ [][PostNext]_vars

\* the calls over the small argument space
MoveNext ==
    \/ mpc = "idle" /\ (\E a \in SmallOne : PtlPut(a)) /\ MoveFrame
    \/ mpc = "idle" /\ (\E a \in SmallOneTriggered : PtlTriggeredPut(a))
         /\ MoveFrame
    \/ mpc = "idle" /\ (\E a \in SmallGet : PtlGet(a)) /\ MoveFrame
    \/ mpc = "idle" /\ (\E a \in SmallGetTriggered : PtlTriggeredGet(a))
         /\ MoveFrame
    \/ mpc = "idle" /\ (\E a \in SmallAtomic : PtlAtomic(a)) /\ MoveFrame
    \/ mpc = "idle" /\ (\E a \in SmallAtomicTriggered : PtlTriggeredAtomic(a))
         /\ MoveFrame
    \/ mpc = "idle" /\ (\E a \in SmallFetch : PtlFetchAtomic(a)) /\ MoveFrame
    \/ mpc = "idle"
         /\ (\E a \in SmallFetchTriggered : PtlTriggeredFetchAtomic(a))
         /\ MoveFrame
    \/ mpc = "idle" /\ (\E a \in SmallSwap : PtlSwap(a)) /\ MoveFrame
    \/ mpc = "idle" /\ (\E a \in SmallSwapTriggered : PtlTriggeredSwap(a))
         /\ MoveFrame
    \/ MoveReturn /\ MoveFrame

InitMove == NemIdle /\ RecvInit /\ GetInit /\ PostInit /\ NemHistInit
      /\ BlockInit
      /\ CodecIdle
      /\ PpeInit /\ CmpIdle
      /\ MoveInit /\ CtInit
      /\ PtlInitIdle /\ ConnIdle
SpecMove == InitMove /\ [][MoveNext]_vars

\* the atomic calls over the matrix argument space
CheckNext ==
    \/ mpc = "idle" /\ (\E a \in MatrixOne : PtlAtomic(a)) /\ MoveFrame
    \/ mpc = "idle" /\ (\E a \in MatrixOne : PtlTriggeredAtomic(a))
         /\ MoveFrame
    \/ mpc = "idle" /\ (\E a \in MatrixTwo : PtlFetchAtomic(a)) /\ MoveFrame
    \/ mpc = "idle" /\ (\E a \in MatrixTwo : PtlTriggeredFetchAtomic(a))
         /\ MoveFrame
    \/ mpc = "idle" /\ (\E a \in MatrixSwap : PtlSwap(a)) /\ MoveFrame
    \/ mpc = "idle" /\ (\E a \in MatrixSwap : PtlTriggeredSwap(a))
         /\ MoveFrame
    \/ MoveReturn /\ MoveFrame

InitCheck == NemIdle /\ RecvInit /\ GetInit /\ PostInit /\ NemHistInit
      /\ BlockInit
      /\ CodecIdle /\ PpeInit
      /\ CmpIdle
      /\ CheckInit /\ CtInit
      /\ PtlInitIdle /\ ConnIdle
SpecCheck == InitCheck /\ [][CheckNext]_vars

\* triggered puts on CT 1 and the calls that update the CTs.  A put and
\* its post_ct run as one call: a CT call starts before or after it, and a
\* put may run between the two adds of PtlTriggeredCTInc.
CtNext ==
    \/ mpc = "idle" /\ ct_call.pc # "returned"
         /\ (\E a \in CtPuts : PtlTriggeredPut(a))
         /\ UNCHANGED ctVars /\ CtFrame
    \/ post_ct /\ CtFrame
    \/ started = <<>> /\ MoveReturn /\ UNCHANGED ctVars /\ CtFrame
    \/ mpc = "idle"
         /\ (\E c \in CtHandles, ev \in CtIncrements : PtlCTInc(c, ev))
         /\ CtFrame
    \/ mpc = "idle"
         /\ (\E g \in CtTargets, ev \in CtNewEvents :
               PtlTriggeredCTSet(g[1], g[2], ev, TrigCt, MaxCt))
         /\ CtFrame
    \/ mpc = "idle"
         /\ (\E g \in CtTargets, ev \in CtIncrements :
               PtlTriggeredCTInc(g[1], g[2], ev, TrigCt, MaxCt))
         /\ CtFrame
    \/ PtlTriggeredCTIncFailure /\ CtFrame
    \/ CtReturn /\ CtFrame

InitCt == NemIdle /\ RecvInit /\ GetInit /\ PostInit /\ NemHistInit
      /\ BlockInit
      /\ CodecIdle
      /\ PpeInit /\ CmpIdle
      /\ MoveIdle /\ CtInit
      /\ PtlInitIdle /\ ConnIdle
SpecCt == InitCt /\ [][CtNext]_vars

\* the threads of one process calling PtlInit and PtlFini, in either build
LibNext ==
    \/ (\E t \in Threads : PtlInit(t)) /\ LibFrame
    \/ (\E t \in Threads, o \in AttemptOutcomes : PtlInitAttempt(t, o))
         /\ LibFrame
    \/ (\E t \in Threads : PtlInitFailure(t)) /\ LibFrame
    \/ (\E t \in Threads : PtlInitRelease(t)) /\ LibFrame
    \/ (\E t \in Threads : PtlInitSpin(t)) /\ LibFrame
    \/ (\E t \in Threads : PtlInitTest(t)) /\ LibFrame
    \/ (\E t \in Threads : PtlInitFailFast(t)) /\ LibFrame
    \/ (\E t \in Threads : PtlInitReturn(t)) /\ LibFrame
    \/ (\E t \in Threads : PtlFini(t)) /\ LibFrame

InitLib ==
    NemIdle /\ RecvInit /\ GetInit /\ PostInit /\ NemHistInit
      /\ BlockInit /\ CodecIdle
      /\ PpeInit /\ CmpIdle
      /\ MoveIdle
      /\ CtInit /\ ConnIdle
      /\ (\E nd \in BOOLEAN : PtlInitStart(nd))
SpecLib == InitLib /\ [][LibNext]_vars

\* connection setup and teardown of the NIs, for every pair of ids
ConnNext ==
    \/ (\E n \in NIs, c \in BOOLEAN, r \in BOOLEAN : init_connect(n, c, r))
         /\ ConnFrame
    \/ (\E n \in NIs, ok \in BOOLEAN : ADDR_RESOLVED(n, ok)) /\ ConnFrame
    \/ (\E n \in NIs, ok \in BOOLEAN : ROUTE_RESOLVED(n, ok)) /\ ConnFrame
    \/ (\E n \in NIs : ESTABLISHED(n)) /\ ConnFrame
    \/ (\E n \in NIs : flush_pending_xi_xt(n)) /\ ConnFrame
    \/ (\E n \in NIs, ok \in BOOLEAN : process_connect_request(n, ok))
         /\ ConnFrame
    \/ (\E n \in NIs : process_connect_reject(n)) /\ ConnFrame
    \/ (\E n \in NIs : DISCONNECTED(n)) /\ ConnFrame
    \/ (\E n \in NIs : ni_shutdown(n)) /\ ConnFrame
    \/ (\E n \in NIs, ok \in BOOLEAN : initiate_disconnect_all(n, ok))
         /\ ConnFrame
    \/ (\E n \in NIs : wait_num_conn(n)) /\ ConnFrame
    \/ (\E n \in NIs : disc_send_comp(n)) /\ ConnFrame
    \/ (\E n \in NIs : disc_recv_packet(n)) /\ ConnFrame

InitConn ==
    NemIdle /\ RecvInit /\ GetInit /\ PostInit /\ NemHistInit
      /\ BlockInit /\ CodecIdle
      /\ PpeInit /\ CmpIdle
      /\ MoveIdle
      /\ CtInit
      /\ PtlInitIdle
      /\ \/ \E p \in IdPairs : ConnInitWith(FALSE, p[1], p[2])
         \/ \E id \in Ids : ConnInitWith(TRUE, id, id)
SpecConn == InitConn /\ [][ConnNext]_vars

\* two NIs with ids 0 and 1: the progress threads handle every event and
\* completion that is there, and a teardown that has begun goes on; the
\* applications connect and tear down when they choose to
InitTeardown ==
    NemIdle /\ RecvInit /\ GetInit /\ PostInit /\ NemHistInit
      /\ BlockInit /\ CodecIdle
      /\ PpeInit /\ CmpIdle
      /\ MoveIdle
      /\ CtInit
      /\ PtlInitIdle
      /\ ConnIdle
Progress(n) ==
    /\ WF_vars((\E ok \in BOOLEAN : ADDR_RESOLVED(n, ok)) /\ ConnFrame)
    /\ WF_vars((\E ok \in BOOLEAN : ROUTE_RESOLVED(n, ok)) /\ ConnFrame)
    /\ WF_vars(ESTABLISHED(n) /\ ConnFrame)
    /\ WF_vars(flush_pending_xi_xt(n) /\ ConnFrame)
    /\ WF_vars((\E ok \in BOOLEAN : process_connect_request(n, ok))
                 /\ ConnFrame)
    /\ WF_vars(process_connect_reject(n) /\ ConnFrame)
    /\ WF_vars(DISCONNECTED(n) /\ ConnFrame)
    /\ WF_vars((\E ok \in BOOLEAN : initiate_disconnect_all(n, ok))
                 /\ ConnFrame)
    /\ WF_vars(wait_num_conn(n) /\ ConnFrame)
    /\ WF_vars(disc_send_comp(n) /\ ConnFrame)
    /\ WF_vars(disc_recv_packet(n) /\ ConnFrame)
SpecTeardown ==
    InitTeardown /\ [][ConnNext]_vars /\ \A n \in NIs : Progress(n)

\* the connection of NIs 0 and 1 with the failures the connection manager
\* reports, and the buffers of NI 1 that wait for the connection
Parkers == {1}
ConnectErrors == {"UNREACHABLE", "CONNECT_ERROR"}
AttemptNext ==
    \/ (\E n \in NIs, c \in BOOLEAN, r \in BOOLEAN : init_connect(n, c, r))
         /\ ConnFrame
    \/ (\E n \in NIs, ok \in BOOLEAN : ADDR_RESOLVED(n, ok)) /\ ConnFrame
    \/ (\E n \in NIs, ok \in BOOLEAN : ROUTE_RESOLVED(n, ok)) /\ ConnFrame
    \/ (\E n \in NIs : ESTABLISHED(n)) /\ ConnFrame
    \/ (\E n \in NIs : flush_pending_xi_xt(n)) /\ ConnFrame
    \/ (\E n \in NIs, ok \in BOOLEAN : process_connect_request(n, ok))
         /\ ConnFrame
    \/ (\E n \in NIs : process_connect_reject(n)) /\ ConnFrame
    \/ (\E n \in NIs : CONNECT_ERROR(n)) /\ ConnFrame
    \/ (\E n \in NIs : cm_event_default(n)) /\ ConnFrame
    \/ (\E n \in NIs : rdma_resolve_error(n)) /\ ConnFrame
    \/ (\E n \in NIs, ev \in ConnectErrors : rdma_connect_error(n, ev))
         /\ ConnFrame
    \/ (\E n \in Parkers, b \in Bufs : wait_conn(n, b)) /\ ConnFrame
    \/ (\E n \in Parkers, b \in Bufs : wait_conn_park(n, b)) /\ ConnFrame
InitAttempt ==
    NemIdle /\ RecvInit /\ GetInit /\ PostInit /\ NemHistInit
      /\ BlockInit /\ CodecIdle
      /\ PpeInit /\ CmpIdle
      /\ MoveIdle
      /\ CtInit
      /\ PtlInitIdle
      /\ ConnIdle
SpecAttempt == InitAttempt /\ [][AttemptNext]_vars

\* compare_id applied to every three ids
CompareNext == CompareIds /\ CmpFrame
InitCompare ==
    NemIdle /\ RecvInit /\ GetInit /\ PostInit /\ NemHistInit
      /\ BlockInit /\ CodecIdle
      /\ PpeInit /\ MoveIdle
      /\ CtInit
      /\ PtlInitIdle
      /\ ConnIdle
      /\ CmpInit
SpecCompare == InitCompare /\ [][CompareNext]_vars

\* the engine serving NIInit and NIFini of its clients, and triggered
\* operations set up on the CTs of an initialised NI
PidArgs == Pids \cup {PTL_PID_ANY}
PpeNext ==
    \/ (\E c \in Clients, k \in NiIndex, pid \in PidArgs, m \in PpeCts,
           a \in AttachOutcomes, e \in BOOLEAN :
           ni_init_impl(c, k, pid, m, a, e)) /\ PpeFrame
    \/ (\E c \in Clients, k \in NiIndex, i \in PpeCts :
           ppe_triggered_append(c, k, i)) /\ PpeFrame
    \/ (\E c \in Clients, k \in NiIndex, e \in BOOLEAN, r \in ClearedReads :
           ni_fini_impl(c, k, e, r)) /\ PpeFrame
InitPpe ==
    NemIdle /\ RecvInit /\ GetInit /\ PostInit /\ NemHistInit
      /\ BlockInit /\ CodecIdle
      /\ CmpIdle /\ MoveIdle
      /\ CtInit
      /\ PtlInitIdle
      /\ ConnIdle /\ PpeInit
SpecPpe == InitPpe /\ [][PpeNext]_vars

\* the producers and the consumer of the blocking queue
BlockNext ==
    \/ \E p \in Producers : BlockingEnqSwap(p) /\ BlockFrame
    \/ \E p \in Producers : BlockingEnqLink(p) /\ BlockFrame
    \/ \E p \in Producers : BlockingEnqTest(p) /\ BlockFrame
    \/ \E p \in Producers : BlockingEnqLock(p) /\ BlockFrame
    \/ \E p \in Producers : BlockingEnqSignal(p) /\ BlockFrame
    \/ \E p \in Producers : BlockingEnqUnlock(p) /\ BlockFrame
    \/ BlockingDeqCall /\ BlockFrame
    \/ BlockingDeqReadHead /\ BlockFrame
    \/ BlockingDeqCheckNext /\ BlockFrame
    \/ BlockingDeqAdvance /\ BlockFrame
    \/ BlockingDeqClearHead /\ BlockFrame
    \/ BlockingDeqCasTail /\ BlockFrame
    \/ BlockingDeqSpin /\ BlockFrame
    \/ BlockingDeqLoop /\ BlockFrame
    \/ BlockingDeqInc /\ BlockFrame
    \/ BlockingDeqLock /\ BlockFrame
    \/ BlockingDeqWait /\ BlockFrame
    \/ BlockingDeqSpurious /\ BlockFrame
    \/ BlockingDeqUnlock /\ BlockFrame
InitBlocking ==
    NemIdle /\ RecvInit /\ GetInit /\ PostInit /\ NemHistInit
      /\ BlockInit /\ CodecIdle
      /\ PpeInit /\ CmpIdle
      /\ MoveIdle /\ CtInit /\ PtlInitIdle /\ ConnIdle
\* a thread inside a call takes its next step when it can; nothing makes a
\* thread call, and nothing makes pthread_cond_wait return without a signal
BlockFairness ==
    /\ \A p \in Producers :
         /\ WF_vars(BlockingEnqLink(p) /\ BlockFrame)
         /\ WF_vars(BlockingEnqTest(p) /\ BlockFrame)
         /\ WF_vars(BlockingEnqLock(p) /\ BlockFrame)
         /\ WF_vars(BlockingEnqSignal(p) /\ BlockFrame)
         /\ WF_vars(BlockingEnqUnlock(p) /\ BlockFrame)
    /\ WF_vars(BlockingDeqReadHead /\ BlockFrame)
    /\ WF_vars(BlockingDeqCheckNext /\ BlockFrame)
    /\ WF_vars(BlockingDeqAdvance /\ BlockFrame)
    /\ WF_vars(BlockingDeqClearHead /\ BlockFrame)
    /\ WF_vars(BlockingDeqCasTail /\ BlockFrame)
    /\ WF_vars(BlockingDeqSpin /\ BlockFrame)
    /\ WF_vars(BlockingDeqLoop /\ BlockFrame)
    /\ WF_vars(BlockingDeqInc /\ BlockFrame)
    /\ WF_vars(BlockingDeqLock /\ BlockFrame)
    /\ WF_vars(BlockingDeqWait /\ BlockFrame)
    /\ WF_vars(BlockingDeqUnlock /\ BlockFrame)
SpecBlocking == InitBlocking /\ [][BlockNext]_vars /\ BlockFairness

\* every value of every conversion, converted and converted back
CodecNext ==
    \/ CodecEncode /\ CodecFrame
    \/ CodecDecode /\ CodecFrame
InitCodec ==
    NemIdle /\ RecvInit /\ GetInit /\ PostInit /\ NemHistInit
      /\ BlockInit /\ PpeInit
      /\ CmpIdle /\ MoveIdle
      /\ CtInit
      /\ PtlInitIdle /\ ConnIdle /\ CodecInit
SpecCodec == InitCodec /\ [][CodecNext]_vars

\* get_conn called by the threads of a physical or a logical NI
GetNext ==
    \/ (\E t \in GetThreads, id \in Ids : get_conn(t, id)) /\ GetFrame
    \/ (\E t \in GetThreads, r \in Ranks : get_conn_rank(t, r)) /\ GetFrame
    \/ (\E t \in GetThreads : get_conn_lock(t)) /\ GetFrame
    \/ (\E t \in GetThreads, a \in BOOLEAN, s \in BOOLEAN :
           get_conn_locked(t, a, s)) /\ GetFrame
    \/ (\E t \in GetThreads : get_conn_return(t)) /\ GetFrame
InitGet ==
    NemIdle /\ RecvInit /\ PostInit /\ NemHistInit
      /\ BlockInit /\ PpeInit
      /\ CmpIdle /\ MoveIdle
      /\ CtInit
      /\ PtlInitIdle /\ ConnIdle /\ CodecIdle
      /\ \E l \in BOOLEAN, b \in BOOLEAN : GetInitWith(l, b)
SpecGet == InitGet /\ [][GetNext]_vars

\* NI 1 with its connection and its teardown, and the application that
\* goes on calling PtlPut on an MD of NI 1
ShutdownPuts == Env([NoArg EXCEPT !.length = 1])
ShutdownNext ==
    \/ ConnNext
    \/ mpc = "idle" /\ (\E a \in ShutdownPuts : PtlPut(a)) /\ MoveFrame
    \/ MoveReturn /\ MoveFrame
InitShutdown ==
    NemIdle /\ RecvInit /\ GetInit /\ PostInit /\ NemHistInit
      /\ BlockInit /\ CodecIdle
      /\ PpeInit /\ CmpIdle
      /\ MoveIdle
      /\ CtInit
      /\ PtlInitIdle
      /\ ConnIdle
SpecShutdown == InitShutdown /\ [][ShutdownNext]_vars

(***************************************************************************)
(* Claims about the ordered NEMESIS queue.                                 *)
(***************************************************************************)
Pos(e) == CHOOSE i \in 1..Len(deq_log) : deq_log[i] = e
Returned(e) == \E i \in 1..Len(deq_log) : deq_log[i] = e

\* C1: with concurrent enqueuers and one dequeuer, the entries a producer
\* successfully enqueued are returned by Dequeue in the order in which that
\* producer enqueued them: no entry is returned twice, and an entry is
\* returned only after every entry the same producer enqueued (with result
\* 1) before it.
C1_PerProducerFifo ==
    /\ \A i, j \in 1..Len(deq_log) : i # j => deq_log[i] # deq_log[j]
    /\ \A e1, e2 \in Entries :
         (e1[1] = e2[1] /\ e1[2] < e2[2] /\ Returned(e2) /\ enq_ret[e1] = 1)
            => (Returned(e1) /\ Pos(e1) < Pos(e2))

C1_Witness ==
    /\ deq_log = << <<1, 1>>, <<2, 1>>, <<1, 2>> >>
    /\ \A e \in Entries : enq_ret[e] = 1

\* the value of the tail's val the producer's swap decides on: the member
\* it read, or the tail itself at the compare-and-swap
EnqSeenVal(p) ==
    IF enq[p].pc = "swap_cas" \/ copy_order[enq[p].step] = "val"
    THEN q.tail.val ELSE enq[p].oldval.val

EnqDecides(p) ==
    /\ enq'[p] # enq[p]
    /\ \/ enq[p].pc = "swap_cas"
       \/ enq[p].pc = "swap_read" /\ enq[p].step = 2

C2_Step(p) ==
    LET e == EnqE(p)
        f == copy_order[enq[p].step]
    IN  enq[p].pc # "idle" =>
        \* rejected exactly when the tail's val is greater than v
        /\ EnqDecides(p) => (enq_ret'[e] = 0 <=> EnqSeenVal(p) > enq[p].v)
        /\ enq_ret'[e] # enq_ret[e] => EnqDecides(p) \/ enq[p].pc = "link"
        \* a rejected call has changed nothing
        /\ enq_ret'[e] = 0 /\ enq_ret[e] = -1
             => ~enq[p].wrote /\ q' = q /\ e_next' = e_next
        /\ (enq'[p] # enq[p] /\ (q' # q \/ e_next' # e_next))
             => enq'[p].wrote \/ enq[p].wrote
        \* else e becomes the tail ...
        /\ (enq[p].pc = "swap_cas" /\ enq'[p] # enq[p] /\ enq_ret'[e] # 0)
             => \/ /\ q.tail = enq[p].oldval
                   /\ q'.tail = EnqF(p) /\ enq'[p].wrote /\ enq'[p].pc = "link"
                \/ /\ q.tail # enq[p].oldval
                   /\ q' = q /\ enq'[p].oldval = q.tail
                   /\ enq'[p].pc = "swap_cas"
        \* ... is linked as head or as the previous tail's next, and the
        \* call returns 1
        /\ (enq[p].pc = "link" /\ enq'[p] # enq[p])
             => /\ enq[p].wrote
                /\ IF enq[p].oldval.ptr = NULL
                   THEN q'.head[f] = EnqF(p)[f] /\ e_next' = e_next
                   ELSE e_next'[enq[p].oldval.ptr][f] = EnqF(p)[f] /\ q' = q
                /\ enq_ret'[e] = IF enq[p].step = 2 THEN 1 ELSE -1
        /\ enq_ret'[e] = 1 /\ enq_ret[e] = -1 => enq[p].pc = "link"

\* C2: Enqueue(q, e, v) returns 0 and leaves head, tail and every next link
\* unchanged exactly when the tail's val its swap sees is greater than v;
\* in every other case e becomes the tail, e is linked as head (previous
\* tail null) or as the previous tail's next, and the call returns 1.
C2_EnqueueContract == [][\A p \in Producers : C2_Step(p)]_vars

C2_Witness ==
    /\ enq_ret[<<1, 1>>] = 1
    /\ enq_ret[<<1, 2>>] = 0
    /\ enq_ret[<<2, 1>>] = 1
    /\ e_next[<<1, 1>>] = NemPtr(<<2, 1>>, 1)
    /\ q.head.ptr = <<1, 1>>

DeqReturns == deq.pc # "idle" /\ deq'.pc = "idle"

C3_Step ==
    LET e == deq.retval.ptr
    IN  \* an entry is returned only if it is the head read, with val <= bound
        /\ (DeqReturns /\ deq'.ret # NULL)
             => /\ deq'.ret = e
                /\ deq.retval.val <= deq.upper_bound
                /\ deq.pc \in {"clear_next", "cas_tail"}
                /\ deq_log' = Append(deq_log, e)
                \* its next pointer is NULL, head is at its successor, the
                \* tail is reset when it was the last entry
                /\ e_next'[e].ptr = NULL
                /\ deq.pc = "clear_next"
                     => e_next[e].ptr # NULL /\ q'.head.ptr = e_next[e].ptr
                /\ deq.pc = "cas_tail"
                     => q.tail = deq.retval /\ q'.tail = nil
                        /\ q'.head.ptr = NULL
        \* empty, or head.val > upper_bound: NULL, and nothing has changed
        /\ (deq.pc = "read_head" /\ deq' # deq)
             => /\ q' = q /\ e_next' = e_next /\ deq_log' = deq_log
                /\ deq.step = 2 =>
                     LET rv == [deq.retval EXCEPT
                                  ![copy_order[2]] = q.head[copy_order[2]]]
                     IN  (rv.ptr = NULL \/ rv.val > deq.upper_bound)
                            <=> (deq'.pc = "idle" /\ deq'.ret = NULL)
        /\ (DeqReturns /\ deq'.ret = NULL) => deq.pc = "read_head"

RecvSteps == recv_state' # recv_state
Last(sq) == sq[Len(sq)]
IsDisc(b) == b.operation > OP_SWAP /\ b.operation < OP_REPLY
\* a packet that came in: its buffer is a BUF_RECV that completed well
Received(b) == b.type = "BUF_RECV" /\ b.status = "IBV_WC_SUCCESS"

\* the dispatch of a received version 1 packet; with asStated every
\* response is handed to the initiator, without it only a response whose
\* handle resolves
C4_Step(asStated) ==
    /\ (recv_state = "STATE_RECV_PACKET" /\ RecvSteps
          /\ buf.version = PTL_HDR_VER_1)
         => /\ (buf.operation <= OP_SWAP /\ buf.length >= 0)
                 => recv_state' = "STATE_RECV_REQ"
            /\ buf.operation >= OP_REPLY => recv_state' = "STATE_RECV_INIT"
            /\ IsDisc(buf) => recv_state' = "STATE_RECV_DROP_BUF"
            /\ handed' = handed
    /\ (recv_state = "STATE_RECV_REQ" /\ RecvSteps)
         => /\ handed' = Append(handed, Last(handed'))
            /\ Last(handed').sm = "tgt"
            /\ Last(handed').type = "BUF_TGT"
            /\ Last(handed').tgt_state = "STATE_TGT_START"
    /\ (recv_state = "STATE_RECV_INIT" /\ RecvSteps)
         => IF asStated \/ buf.handle_ok
            THEN /\ Len(handed') = Len(handed) + 1
                 /\ handed' = Append(handed, Last(handed'))
                 /\ Last(handed').sm = "init"
                 /\ Last(handed').from = "recv_init"
            ELSE /\ handed' = handed
                 /\ recv_state' = "STATE_RECV_DROP_BUF"
    \* only REQ and INIT hand a received packet on
    /\ (Received(buf) /\ recv_state # "IDLE" /\ handed' # handed)
         => recv_state \in {"STATE_RECV_REQ", "STATE_RECV_INIT"}
    /\ (Received(buf) /\ buf.version = PTL_HDR_VER_1 /\ IsDisc(buf)
          /\ recv_state # "IDLE")
         => handed = <<>> /\ handed' = <<>>

\* C4: a received packet with header version 1 is dispatched by operation:
\* operation <= SWAP with a whole request header goes to REQ and to the
\* target state machine as a BUF_TGT buffer in TGT_START; operation >=
\* REPLY goes to INIT and, when its handle resolves to a buffer, to the
\* initiator state machine of that buffer, else to DROP_BUF; an operation in
\* between (disconnect) is consumed locally and handed to neither.
C4_Dispatch == [][C4_Step(FALSE)]_vars

\* C4 as the specification states it: every response reaches the initiator
\* state machine.
C4_AsStated == [][C4_Step(TRUE)]_vars

C4_Witness ==
    /\ recv_state = "STATE_RECV_REPOST"
    /\ Received(buf)
    /\ buf.version = PTL_HDR_VER_1
    /\ buf.operation >= OP_REPLY
    /\ ~buf.handle_ok
    /\ handed = <<>>
    /\ buf.ref = 0

ProtocolError(b) ==
    \/ b.version # PTL_HDR_VER_1
    \/ b.operation <= OP_SWAP /\ b.length < 0

\* every reason for which a buffer comes to DROP_BUF
DropCause(b) ==
    \/ b.status # "IBV_WC_SUCCESS" /\ b.type \notin {"BUF_SEND", "BUF_RDMA"}
    \/ Received(b) /\ ProtocolError(b)
    \/ Received(b) /\ IsDisc(b)
    \/ Received(b) /\ b.operation >= OP_REPLY /\ ~b.handle_ok

C5_Step(cause) ==
    \* a packet with a protocol error goes to DROP_BUF and nowhere else
    /\ (recv_state = "STATE_RECV_PACKET" /\ RecvSteps /\ ProtocolError(buf))
         => recv_state' = "STATE_RECV_DROP_BUF" /\ handed' = handed
    /\ (Received(buf) /\ ProtocolError(buf) /\ recv_state # "IDLE")
         => handed = <<>> /\ handed' = <<>>
    \* DROP_BUF releases the buffer and counts it, once
    /\ (recv_state = "STATE_RECV_DROP_BUF" /\ RecvSteps)
         => /\ buf.ref = 1 /\ buf'.ref = 0
            /\ ni'.num_recv_drops = ni.num_recv_drops + 1
            /\ recv_state' = "STATE_RECV_REPOST"
    /\ (Received(buf) /\ ProtocolError(buf)
          /\ recv_state \in {"STATE_RECV_REPOST", "STATE_RECV_DONE"})
         => buf.ref = 0 /\ ni'.num_recv_drops = ni.num_recv_drops
    \* the counter moves for nothing else
    /\ ni'.num_recv_drops # ni.num_recv_drops
         => recv_state = "STATE_RECV_DROP_BUF" /\ cause
    /\ recv_state' = "STATE_RECV_DROP_BUF" => recv_state # "STATE_RECV_DROP_BUF"

\* C5: a received packet with a header version other than 1, or a request
\* shorter than the request header, never reaches the target or initiator
\* state machine, its buffer is released and num_recv_drops goes up by
\* exactly one; num_recv_drops goes up only in DROP_BUF, which is entered
\* for these protocol errors, for a disconnect packet, for a response whose
\* handle does not resolve, and for a failed completion of a buffer that is
\* neither BUF_SEND nor BUF_RDMA.
C5_Drops == [][C5_Step(DropCause(buf))]_vars

\* C5 as the specification states it: num_recv_drops goes up only for a
\* protocol error of a received packet.
C5_AsStated == [][C5_Step(Received(buf) /\ ProtocolError(buf))]_vars

C5_Witness ==
    /\ ni.num_recv_drops = 2
    /\ recv_state = "STATE_RECV_REPOST"
    /\ Received(buf)
    /\ buf.version = PTL_HDR_VER_1
    /\ IsDisc(buf)
    /\ conn.remote_disc = 1
    /\ buf.ref = 0

BothDisc(c) == c.local_disc = 2 /\ c.remote_disc = 1

PutApis == {"PtlPut", "PtlTriggeredPut"}
GetApis == {"PtlGet", "PtlTriggeredGet"}
AtomicApis == {"PtlAtomic", "PtlTriggeredAtomic"}
FetchApis == {"PtlFetchAtomic", "PtlTriggeredFetchAtomic"}
SwapApis == {"PtlSwap", "PtlTriggeredSwap"}
MoveReturned == mpc = "returned"

\* the call was refused and nothing was handed on; the refusal is
\* PTL_ARG_INVALID once get_gbl has succeeded
Rejected ==
    /\ last.ret # "PTL_OK"
    /\ started = <<>>
    /\ last.arg.gbl_ok => last.ret = "PTL_ARG_INVALID"

\* every handle of the call resolves and an XI can be had
EnvOk ==
    /\ last.arg.gbl_ok /\ last.arg.ct_ok /\ last.arg.xi_ok
    /\ md_ok(last.arg.md)
    /\ last.api \in FetchApis \cup SwapApis => md_ok(last.arg.put_md)

\* ack_req asks for an event or a count the MD cannot give, or is no
\* ack_req at all
AckBad(a) ==
    \/ a.ack_req < PTL_NO_ACK_REQ
    \/ a.ack_req > PTL_OC_ACK_REQ
    \/ /\ md_ok(a.md)
       /\ \/ a.ack_req = PTL_ACK_REQ /\ ~mds[a.md].eq
          \/ a.ack_req = PTL_CT_ACK_REQ /\ ~mds[a.md].ct

C6_Holds(build) ==
    (MoveReturned /\ build /\ last.api \in PutApis \cup AtomicApis
       /\ AckBad(last.arg))
      => Rejected

TooLong(api, a) ==
    \/ api \in PutApis \cup GetApis /\ a.length > limits.max_msg_size
    \/ api \in AtomicApis \cup FetchApis \cup SwapApis
         /\ a.length > limits.max_atomic_size
XiTooLong(xi) ==
    \/ xi.operation \in {OP_PUT, OP_GET} /\ xi.rlength > limits.max_msg_size
    \/ xi.operation \in {OP_ATOMIC, OP_FETCH, OP_SWAP}
         /\ xi.rlength > limits.max_atomic_size

C7_Holds(build) ==
    /\ (MoveReturned /\ build /\ TooLong(last.api, last.arg)) => Rejected
    /\ build => \A i \in DOMAIN started : ~XiTooLong(started[i])

\* C7: in a build with PTL_CHECK_BUILD, no XI is handed to the initiator
\* state machine with a length over max_msg_size (Put, Get) or over
\* max_atomic_size (Atomic, FetchAtomic, Swap); every such call, triggered
\* or not, is refused (with PTL_ARG_INVALID once the library is
\* initialised).
C7_LengthChecked == C7_Holds(check_build)

\* C7 as the specification states it: in every build.
C7_AsStated == C7_Holds(TRUE)

C7_Witness ==
    /\ MoveReturned /\ check_build /\ EnvOk
    /\ last.api = "PtlGet"
    /\ last.arg.local_offset = 0
    /\ last.arg.length > limits.max_msg_size
    /\ last.arg.length <= mds[last.arg.md].length
    /\ last.ret = "PTL_ARG_INVALID"
    /\ started = <<>>

\* the validity table of the specification, by op family
SpecFloatOps ==
    {"PTL_MIN", "PTL_MAX", "PTL_SUM", "PTL_PROD", "PTL_SWAP", "PTL_CSWAP",
     "PTL_CSWAP_NE", "PTL_CSWAP_LE", "PTL_CSWAP_LT", "PTL_CSWAP_GE",
     "PTL_CSWAP_GT"}
SpecComplexOps ==
    {"PTL_SUM", "PTL_PROD", "PTL_SWAP", "PTL_CSWAP", "PTL_CSWAP_NE"}
SpecAtomicOps ==
    {"PTL_MIN", "PTL_MAX", "PTL_SUM", "PTL_PROD", "PTL_LOR", "PTL_LAND",
     "PTL_BOR", "PTL_BAND", "PTL_LXOR", "PTL_BXOR"}
SpecSwapOps ==
    {"PTL_SWAP", "PTL_CSWAP", "PTL_CSWAP_NE", "PTL_CSWAP_LE", "PTL_CSWAP_LT",
     "PTL_CSWAP_GE", "PTL_CSWAP_GT", "PTL_MSWAP"}
SpecOperandOps == SpecSwapOps \ {"PTL_SWAP"}
InTable(a) ==
    /\ a.atom_op \in PTL_MIN..(PTL_OP_LAST - 1)
    /\ a.atom_type \in PTL_CHAR..(PTL_DATATYPE_LAST - 1)
SpecTypeOk(a) ==
    /\ TypeName(a.atom_type) \in {"PTL_FLOAT", "PTL_DOUBLE"}
         => OpName(a.atom_op) \in SpecFloatOps
    /\ TypeName(a.atom_type) \in {"PTL_FLOAT_COMPLEX", "PTL_DOUBLE_COMPLEX"}
         => OpName(a.atom_op) \in SpecComplexOps
SpecValid(api, a) ==
    /\ InTable(a)
    /\ api \in AtomicApis \cup FetchApis => OpName(a.atom_op) \in SpecAtomicOps
    /\ api \in SwapApis => OpName(a.atom_op) \in SpecSwapOps
    /\ SpecTypeOk(a)

\* what a call that passes the checks returns: PTL_OK and an XI, or
\* PTL_NO_SPACE when the pool had none
Accepted ==
    IF last.before[1].xi < MaxXi
    THEN last.ret = "PTL_OK" /\ Len(started) = 1
    ELSE last.ret = "PTL_NO_SPACE" /\ started = <<>>

C8_Holds(build) ==
    (MoveReturned /\ build /\ EnvOk /\ last.arg.length = 1
       /\ last.api \in AtomicApis \cup FetchApis \cup SwapApis)
      => IF SpecValid(last.api, last.arg) THEN Accepted ELSE Rejected

\* C8: in a build with PTL_CHECK_BUILD, for every pair (atom_op, atom_type),
\* in the table or out of range, an Atomic or FetchAtomic passes the checks
\* iff the op has its atomic column set and the type is allowed by its
\* float and complex columns, a Swap iff the op has its swap column set and
\* the type is allowed; every other pair is refused with PTL_ARG_INVALID.
\* A call that passes returns PTL_OK, or PTL_NO_SPACE when no XI is free.
C8_MatrixChecked == C8_Holds(check_build)

\* C8 as the specification states it: in every build.
C8_AsStated == C8_Holds(TRUE)

C8_Witness ==
    /\ MoveReturned /\ check_build /\ EnvOk
    /\ last.api = "PtlFetchAtomic"
    /\ last.arg.atom_op = OpOf("PTL_MIN")
    /\ last.arg.atom_type = TypeOf("PTL_FLOAT_COMPLEX")
    /\ last.arg.length = 1
    /\ last.ret = "PTL_ARG_INVALID"
    /\ started = <<>>

C9_Holds(build) ==
    (MoveReturned /\ build /\ EnvOk /\ last.api \in SwapApis
       /\ SpecValid(last.api, last.arg))
      => IF /\ OpName(last.arg.atom_op) \in SpecOperandOps
            /\ last.arg.length > atom_type_size[TypeName(last.arg.atom_type)]
         THEN Rejected
         ELSE Accepted

\* C9: in a build with PTL_CHECK_BUILD, a Swap or TriggeredSwap whose op
\* uses an operand (the CSWAP family, MSWAP) passes the checks only with
\* length <= the size of atom_type and is refused with PTL_ARG_INVALID with
\* a larger length; with the plain SWAP op the length is not held to the
\* size of the type.
C9_OperandLength == C9_Holds(check_build)

\* C9 as the specification states it: in every build.
C9_AsStated == C9_Holds(TRUE)

C9_Witness ==
    /\ MoveReturned /\ check_build /\ EnvOk
    /\ last.api = "PtlTriggeredSwap"
    /\ last.arg.atom_op = OpOf("PTL_MSWAP")
    /\ last.arg.atom_type = TypeOf("PTL_INT")
    /\ last.arg.length = atom_type_size["PTL_INT"] + 1
    /\ last.ret = "PTL_ARG_INVALID"
    /\ started = <<>>

\* C10: a call that returns an error has handed no XI to process_init or
\* post_ct, holds no XI, and has released the global state, each MD and the
\* trigger CT: the reference counts are those the call found.
C10_ErrorNoEffect ==
    (MoveReturned /\ last.ret # "PTL_OK")
      => started = <<>> /\ refs = last.before[1]

C10_Witness ==
    /\ MoveReturned
    /\ last.api = "PtlTriggeredSwap"
    /\ last.arg.gbl_ok /\ last.arg.ct_ok /\ ~last.arg.xi_ok
    /\ md_ok(last.arg.md) /\ md_ok(last.arg.put_md)
    /\ last.ret = "PTL_NO_SPACE"
    /\ started = <<>>
    /\ refs = last.before[1]

\* the references the XIs of pool hold on MD h: one for each of put_md and
\* get_md that names it
XiNames(x, h) ==
    (IF x.put_md = h THEN 1 ELSE 0) + (IF x.get_md = h THEN 1 ELSE 0)
RECURSIVE XiRefs(_, _, _)
XiRefs(pool, S, h) ==
    IF S = {} THEN 0
    ELSE LET x == CHOOSE y \in S : TRUE
         IN  pool[x] * XiNames(x, h) + XiRefs(pool, S \ {x}, h)

\* C11: every XI that a call has allocated and handed on holds a reference
\* on each MD it names as put_md or get_md: the reference count of an MD is
\* at least the number of times the allocated XIs name it, so an MD with
\* count zero is named by no XI.
C11_XiHoldsMd ==
    /\ \A h \in MdHandles : refs.md[h] >= XiRefs(xi_pool, DOMAIN xi_pool, h)
    /\ refs.xi = BagCardinality(xi_pool)

C11_Witness ==
    /\ MoveReturned
    /\ last.api = "PtlTriggeredFetchAtomic"
    /\ last.ret = "PTL_OK"
    /\ BagIn([put_md |-> 1, get_md |-> 1], xi_pool)
    /\ refs.md[1] = 2

(***************************************************************************)
(* Counting events and triggered operations.                               *)
(***************************************************************************)
CtTriggeredCalls == {"PtlTriggeredCTSet", "PtlTriggeredCTInc"}
\* no call is under way
CtQuiet == mpc = "idle" /\ ct_call.pc = "idle"

\* C12: a triggered operation with threshold T on CT c is not started while
\* the total of c is below T, is handed on in state START once the total
\* has reached T, and is started exactly once.
C12_AsStated ==
    /\ \A i \in DOMAIN ct_fired :
         /\ ct_fired[i].total >= ct_fired[i].xi.threshold
         /\ ct_fired[i].xi.state = "STATE_INIT_START"
    /\ CtQuiet =>
         \A i \in DOMAIN ct_list : CtTotal(TrigCt) < ct_list[i].threshold
    /\ Len(ct_list) + Len(ct_fired) + Len(started) = refs.xi

\* C13: PtlTriggeredCTSet and PtlTriggeredCTInc change the target CT only
\* when the total of the trigger CT has reached the threshold.
C13_AsStated ==
    [][(ct_call'.api \in CtTriggeredCalls /\ ct_event' # ct_event)
         => CtTotal(ct_call'.trig) >= ct_call'.threshold]_vars

\* the step is the store of PtlTriggeredCTSet into CT c
CtSetStep(c) ==
    /\ ct_call.pc = "idle"
    /\ ct_call'.api = "PtlTriggeredCTSet"
    /\ ct_call'.ct = c
\* the step is an add into CT c that wraps the counter
CtWrapStep(c) ==
    /\ ct_call'.api \in {"PtlCTInc", "PtlTriggeredCTInc"}
    /\ ct_call'.ct = c
    /\ \/ ct_event[c].success + ct_call'.ev.success >= SizeMod
       \/ ct_event[c].failure + ct_call'.ev.failure >= SizeMod

\* C14: success + failure of a CT never decreases under an increment that
\* does not wrap a counter; only the store of a CT set, or an add that
\* wraps, lowers it.
C14_IncMonotone ==
    [][\A c \in CtHandles :
         CtTotal(c)' < CtTotal(c) => CtSetStep(c) \/ CtWrapStep(c)]_vars

\* C14 as the specification states it: success + failure never decreases.
C14_AsStated == [][\A c \in CtHandles : CtTotal(c)' >= CtTotal(c)]_vars

C14_Witness ==
    /\ ct_call.pc = "returned"
    /\ ct_call.api = "PtlTriggeredCTInc"
    /\ ct_call.ret = "PTL_OK"
    /\ ct_call.ev = [success |-> 1, failure |-> 1]
    /\ ct_event[ct_call.ct] = [success |-> MaxCt, failure |-> 1]

\* C15: when an update of a CT returns, no operation whose threshold the
\* new total has reached is left on the triggered list of the CT.
C15_AsStated ==
    [][(/\ ct_call.pc # "returned"
        /\ ct_call'.pc = "returned"
        /\ ct_call'.ret = "PTL_OK"
        /\ ct_call'.ct = TrigCt)
         => \A i \in DOMAIN ct_list' :
              CtTotal(TrigCt)' < ct_list'[i].threshold]_vars

(***************************************************************************)
(* Claims about library initialisation.                                    *)
(***************************************************************************)
LibQuiet == \A t \in Threads : init_pc[t] \in {"idle", "returned"}
LibReturns(t) == init_pc[t] # "returned" /\ init_pc'[t] = "returned"

\* C16: with several threads in PtlInit, no call returns while the
\* initialisation attempt of another call is still running, every call
\* returns the result of the attempt (PTL_OK after a success, PTL_FAIL
\* after a failure), and once no call is running init_ref_count counts
\* exactly the calls that returned PTL_OK and were not finalised, so that
\* a failed round leaves it where it was.
C16_AsStated ==
    [][/\ \A t \in Threads :
            LibReturns(t) =>
              /\ \A u \in Threads \ {t} : init_pc[u] # "attempt"
              /\ init_ret'[t] = init_last'
       /\ LibQuiet' => init_ref_count' = init_held']_vars
(***************************************************************************)
(* Claims about connection setup and teardown.                             *)
(***************************************************************************)
CmQuiet ==
    /\ \A n \in NIs : cm_events[n] = <<>> /\ nis[n].fini = "run"
    /\ ~cm_failed
Simultaneous == ~cm_self /\ \A n \in NIs : cm_ret[n] = "PTL_OK"
Accepting == {n \in NIs : cm_log[n] = "accept"}

\* C17: a connect request that finds the conn_t connecting is accepted
\* exactly when the id of the requester is greater than the id of the NI,
\* rejected exactly when it is lower, and a self connection exactly when
\* the ids are equal; and when both NIs have initiated the connection and
\* every event is handled, one request was accepted and both conn_t are
\* connected.
C17_AsStated ==
    /\ \A n \in NIs :
          cm_log[n] # "none" =>
            /\ cm_log[n] = "accept" <=> IdGreater(nis[Dest(n)].id, nis[n].id)
            /\ cm_log[n] = "reject" <=> IdGreater(nis[n].id, nis[Dest(n)].id)
            /\ cm_log[n] = "self" <=> nis[Dest(n)].id = nis[n].id
    /\ (Simultaneous /\ CmQuiet) =>
          /\ Cardinality(Accepting) = 1
          /\ \A n \in NIs : conns[n].state = "CONN_STATE_CONNECTED"
\* the disconnect message of n is sent and n is in its wait loop
DiscSent(n) == nis[n].fini = "wait" /\ conns[n].local_disc >= 1
\* a call of the operating system failed, or a process aborted
CmBroken == cm_failed \/ \E m \in NIs : conns[m].state = "ABORTED"

\* C19: an NI whose initiate_disconnect_all has sent the disconnect
\* message to its connected peer and waits for num_conn to reach 0
\* eventually leaves the wait loop, unless a system call fails or a
\* process aborts.
C19_AsStated ==
    \A n \in NIs : (DiscSent(n) /\ ~CmBroken) ~> (nis[n].fini = "done" \/ CmBroken)
\* C20: once shutting_down of an NI is set, a data-movement call on the
\* NI is refused and creates no XI, and init_connect returns PTL_FAIL and
\* leaves the conn_t as it was: disconnected, no reference taken, no
\* cm_id.
C20_AsStated ==
    [][/\ (nis[1].shutting_down /\ mpc = "idle" /\ mpc' = "returned")
            => /\ last'.ret # "PTL_OK"
               /\ started' = <<>>
               /\ refs'.xi = refs.xi
       /\ \A n \in NIs :
            (nis[n].shutting_down /\ cm_calls'[n] # cm_calls[n])
              => /\ cm_ret'[n] = "PTL_FAIL"
                 /\ conns'[n] = conns[n]
                 /\ conns[n].state = "CONN_STATE_DISCONNECTED"
                 /\ conns[n].cm_id = "NULL"]_vars

(***************************************************************************)
(* Claims about connection attempts and the wait list of a conn_t.         *)
(***************************************************************************)
\* the one attempt of n, which the peer did not cross with its own, got an
\* error from the connection manager and every event is handled
AttemptOver(n) ==
    /\ cm_calls[n] = 1
    /\ cm_ret[n] = "PTL_OK"
    /\ cm_calls[Dest(n)] = 0
    /\ cm_err[n] # "none"
    /\ \A m \in NIs : cm_events[m] = <<>>
RetryCounters(c) ==
    {c.retry_resolve_addr, c.retry_resolve_route, c.retry_connect}

\* C21: the retry counters of an attempt are 3 when init_connect has set
\* them and stay within 0..3, and an attempt that got an error from the
\* connection manager is abandoned once its events are handled: the conn_t
\* is disconnected again.
C21_AsStated ==
    \A n \in NIs :
       /\ cm_calls[n] > 0 /\ ~nis[n].shutting_down
            => RetryCounters(conns[n]) \subseteq 0..Retries
       /\ AttemptOver(n) => conns[n].state = "CONN_STATE_DISCONNECTED"

\* a handler of n ends the attempt of n with a failure
FinalFailure(n) ==
    /\ cm_events[n] # <<>>
    /\ Head(cm_events[n]).event \in
         {"ADDR_RESOLVED", "ROUTE_RESOLVED", "CONNECT_ERROR", "REJECTED"}
    /\ conns[n].state \in {"CONN_STATE_RESOLVING_ADDR",
                           "CONN_STATE_RESOLVING_ROUTE",
                           "CONN_STATE_CONNECTING"}
    /\ conns'[n].state = "CONN_STATE_DISCONNECTED"

\* C22: the handler that ends a connection attempt with a failure
\* completes every buffer on the wait list of the conn_t with
\* PTL_NI_UNDELIVERABLE and leaves the list empty.
C22_AsStated ==
    [][\A n \in NIs :
         FinalFailure(n)
           => /\ buf_list'[n] = <<>>
              /\ \A i \in 1..Len(buf_list[n]) :
                   wait_pc'[buf_list[n][i].buf] = "PTL_NI_UNDELIVERABLE"]_vars

BufsOf(seq) == [i \in 1..Len(seq) |-> seq[i].buf]
SendFailed == buf.status # "IBV_WC_SUCCESS"
\* C24: comp_poll gives a BUF_SEND buffer whose completion has an error
\* status ni_fail = PTL_NI_UNDELIVERABLE, and send_comp hands the buffer
\* of a request (operation <= OP_SWAP) to process_init with that failure
\* whether or not the completion was requested; after a successful
\* completion send_comp calls process_init only if the send was signaled,
\* and if it was not it only drops the reference of the buffer.
C24_SendComp ==
    [][/\ (recv_state = "IDLE" /\ recv_state' = "STATE_RECV_SEND_COMP")
            => /\ buf'.type = "BUF_SEND"
               /\ buf'.status # "IBV_WC_SUCCESS"
                    => buf'.ni_fail = "PTL_NI_UNDELIVERABLE"
       /\ recv_state = "STATE_RECV_SEND_COMP"
            => /\ recv_state' = "STATE_RECV_DONE"
               /\ buf'.ref = buf.ref - 1
               /\ (SendFailed /\ buf.operation <= OP_SWAP)
                    => /\ Len(handed') = Len(handed) + 1
                       /\ handed'[Len(handed')].sm = "init"
                       /\ handed'[Len(handed')].ni_fail =
                            "PTL_NI_UNDELIVERABLE"
               /\ (~SendFailed /\ handed' # handed)
                    => buf.signaled /\ buf.operation <= OP_SWAP
               /\ (~SendFailed /\ ~buf.signaled)
                    => /\ buf' = [buf EXCEPT !.ref = @ - 1]
                       /\ UNCHANGED <<handed, conn, ni>>]_vars
\* a request whose send failed without a requested completion went to
\* process_init
C24_Witness ==
    /\ recv_state = "STATE_RECV_DONE"
    /\ buf.type = "BUF_SEND"
    /\ SendFailed
    /\ ~buf.signaled
    /\ buf.operation <= OP_SWAP
    /\ handed # <<>>
    /\ handed[Len(handed)].from = "send_comp"
    /\ handed[Len(handed)].ni_fail = "PTL_NI_UNDELIVERABLE"

(***************************************************************************)
(* Claims about compare_id.                                                *)
(***************************************************************************)
Sign(x) == IF x > 0 THEN 1 ELSE IF x < 0 THEN -1 ELSE 0
\* the order of two ids by nid, then by pid
IdOrder(a, b) == IF IdGreater(a, b) THEN 1 ELSE IF a = b THEN 0 ELSE -1

\* C25: the sign of compare_id(a, b) is the order of a and b by nid and
\* then pid, for all ids of the full width; so it is antisymmetric and
\* transitive.
C25_AsStated ==
    cmp_res # <<>> =>
      /\ \A i, j \in 1..3 :
           Sign(cmp_res[i][j]) = IdOrder(cmp_ids[i], cmp_ids[j])
      /\ \A i, j \in 1..3 : Sign(cmp_res[i][j]) = -Sign(cmp_res[j][i])
      /\ \A i, j, k \in 1..3 :
           (cmp_res[i][j] > 0 /\ cmp_res[j][k] > 0) => cmp_res[i][k] > 0

(***************************************************************************)
(* Claims about NIInit and NIFini of the processing engine.                *)
(***************************************************************************)
\* the result of NIInit for the command L, from the pid the client held
\* and the pids that were taken when it arrived
NIInitResult(L) ==
    IF L.pid = PTL_PID_ANY /\ L.held = -1 /\ FirstFree(L.pids) = -1
    THEN "PTL_NO_SPACE"
    ELSE IF L.pid # PTL_PID_ANY /\ L.held = -1 /\ L.pids[L.pid] # -1
    THEN "PTL_PID_IN_USE"
    ELSE IF L.pid # PTL_PID_ANY /\ L.held # -1 /\ L.pid # L.held
    THEN "PTL_ARG_INVALID"
    ELSE IF L.attach # "ok"
    THEN "PTL_FAIL"
    ELSE "PTL_OK"

\* C26: the ack of NIInit carries the result of the command: NO_SPACE,
\* PID_IN_USE, ARG_INVALID or FAIL as the reservation of the pid and the
\* attaches turn out, and PTL_OK otherwise; a client without a pid that
\* asks for PTL_PID_ANY gets the lowest free pid.
C26_AsStated ==
    (ppe_last.call = "NIInit" /\ ppe_ack[ppe_last.peer] # "none")
      => /\ ppe_ack[ppe_last.peer] = NIInitResult(ppe_last)
         /\ (ppe_last.pid = PTL_PID_ANY /\ ppe_last.held = -1
               /\ FirstFree(ppe_last.pids) # -1)
              => ppe_clients[ppe_last.peer].pid = FirstFree(ppe_last.pids)

\* NIFini of ppe_last got its entry and went through
FiniDone == ppe_last.call = "NIFini" /\ ppe_last.cleared
FiniHeap == ppe_heap[ppe_last.peer][ppe_last.ni]

\* C27: when NIFini has cleared the NI, the triggered list of every CT is
\* torn down and the pools are freed, and nothing was read from the
\* structure after it was cleared.
C27_AsStated ==
    FiniDone
      => /\ ~ppe_last.read_cleared
         /\ FiniHeap.pools = "freed"
         /\ \A i \in PpeCts :
              i <= ppe_last.before.max_cts => FiniHeap.lists[i] = "fini"

\* C28: NIFini drops the triggered operations that are pending on the
\* lists of the CTs of the NI, and the failure count of each CT goes up by
\* one for each.
C28_AsStated ==
    FiniDone
      => \A i \in PpeCts :
           /\ FiniHeap.pending[i] = 0
           /\ FiniHeap.failure[i] =
                ppe_last.before.failure[i] + ppe_last.before.pending[i]

(***************************************************************************)
(* Claims about the conversions of header fields and identifiers.          *)
(***************************************************************************)
\* C29: a value converted for the wire and converted back is the value:
\* le*_to_cpu(cpu_to_le*(x)) = x and be*_to_cpu(cpu_to_be*(x)) = x for
\* 16, 32 and 64 bits, addr_to_nid(nid_to_addr(n)) = n, and
\* port_to_pid(pid_to_port(p)) = p for a 16-bit pid other than PTL_PID_ANY.
C29_RoundTrip ==
    (codec.back # -1 /\ ~(codec.kind = "pid" /\ codec.x = PTL_PID_ANY))
      => /\ codec.back = codec.x
         /\ codec.wire \in Domain(codec.kind)
\* a 64-bit value whose bytes differ went to big-endian and back
C29_Witness ==
    /\ codec.kind = "be64"
    /\ codec.back # -1
    /\ codec.wire # codec.x
    /\ ByteOf(codec.x, 1) # ByteOf(codec.x, 5)

(***************************************************************************)
(* Claims about the blocking NEMESIS queue.                                *)
(***************************************************************************)
\* the entries whose enqueue is complete: swapped into the tail and linked
Linked(e) ==
    \/ e[2] < benq[e[1]].idx
    \/ /\ e[2] = benq[e[1]].idx
       /\ benq[e[1]].pc \in {"test", "lock", "signal", "unlock"}
Enqueued == Cardinality({e \in Entries : Linked(e)})

\* the consumer is blocked only with q->frustration above the threshold and
\* the queue seen empty; while it is blocked and an entry is in the queue, a
\* producer is on its way to the signal; the assert of the blocking Dequeue
\* holds
C30_Blocked ==
    /\ bdeq.pc # "abort"
    /\ bdeq.pc = "waiting" =>
         /\ frustration > SpinThreshold
         /\ bdeq.seen_empty
         /\ bq.head # NULL =>
              \E p \in Producers : benq[p].pc \in {"test", "lock", "signal"}

\* a signal is sent with q->frustration non-zero and resets it, and nothing
\* else resets it; the consumer begins to wait only above the threshold
C30_Signal ==
    /\ b_last' = "signal" => (frustration # 0 /\ frustration' = 0)
    /\ (frustration # 0 /\ frustration' = 0) => b_last' = "signal"
    /\ b_last' = "wait" => (frustration > SpinThreshold /\ bdeq.seen_empty)

\* C30: in the blocking NEMESIS queue the consumer blocks on the condition
\* variable only after the frustration counter exceeded the spin threshold
\* while the queue was seen empty, an enqueuer signals and resets the
\* counter only when it is non-zero, the consumer is never left blocked
\* while the queue holds an entry, and a call of the blocking Dequeue
\* returns a non-null entry once an entry that was not yet returned has
\* been enqueued.
C30_NoLostWakeup ==
    /\ []C30_Blocked
    /\ [][C30_Signal]_vars
    /\ \A k \in 0..(MaxBlockingCalls - 1) :
         (bdeq.pc # "idle" /\ Len(b_log) = k /\ Enqueued > k)
           ~> (Len(b_log) > k)
\* the consumer blocked and a signal of an enqueuer has just woken it, with
\* the entry in the queue
C30_Witness ==
    /\ bdeq.pc = "woken"
    /\ b_last = "signal"
    /\ ~b_spurious
    /\ bq.head # NULL

(***************************************************************************)
(* Claims about the ordered NEMESIS queue over a whole execution.          *)
(***************************************************************************)
\* every producer has returned from its last Enqueue
ProducersDone ==
    \A p \in Producers : enq[p].pc = "idle" /\ enq[p].idx > NumEntries(p)
\* the dequeuer waits for a successor that no producer is left to link
DeqStuck ==
    /\ ProducersDone
    /\ deq.pc = "spin"
    /\ e_next[deq.retval.ptr].ptr = NULL
\* no later Dequeue call returns an entry: the queue is empty with nobody
\* inside a call, or the call of the dequeuer never returns
NoMoreReturns ==
    \/ ProducersDone /\ deq.pc = "idle" /\ q.head.ptr = NULL
    \/ DeqStuck

\* C31: with concurrent enqueuers and one dequeuer the entries are
\* conserved: no entry is returned twice, no entry whose Enqueue returned 0
\* is returned, and once no Dequeue call can return another entry, every
\* entry whose Enqueue returned 1 has been returned by a Dequeue call.
C31_AsStated ==
    /\ \A i, j \in 1..Len(deq_log) : i # j => deq_log[i] # deq_log[j]
    /\ \A e \in Entries : enq_ret[e] = 0 => ~Returned(e)
    /\ NoMoreReturns => \A e \in Entries : enq_ret[e] = 1 => Returned(e)

\* C32: over a whole execution the val of an entry Dequeue returns is
\* greater than or equal to the val of every entry returned before it, also
\* when the queue was empty in between.
C32_AsStated ==
    \A i, j \in 1..Len(deq_log) :
       i < j => enq_val[deq_log[i]] <= enq_val[deq_log[j]]

(***************************************************************************)
(* Claims about a whole run of the receive sub-FSM.                        *)
(***************************************************************************)
\* the transitions of the claim
RecvPaths ==
    {<<"STATE_RECV_PACKET_RDMA", "STATE_RECV_PACKET">>,
     <<"STATE_RECV_PACKET", "STATE_RECV_REQ">>,
     <<"STATE_RECV_PACKET", "STATE_RECV_INIT">>,
     <<"STATE_RECV_PACKET", "STATE_RECV_DROP_BUF">>,
     <<"STATE_RECV_REQ", "STATE_RECV_REPOST">>,
     <<"STATE_RECV_INIT", "STATE_RECV_REPOST">>,
     <<"STATE_RECV_DROP_BUF", "STATE_RECV_REPOST">>,
     <<"STATE_RECV_REPOST", "STATE_RECV_DONE">>,
     <<"STATE_RECV_SEND_COMP", "STATE_RECV_DONE">>,
     <<"STATE_RECV_RDMA_COMP", "STATE_RECV_DONE">>,
     <<"STATE_RECV_RDMA_COMP", "STATE_RECV_ERROR">>}
\* the loop of process_recv_rdma or process_recv_mem is left
RunEnds == recv_state # "IDLE" /\ recv_state' = "IDLE"

\* C33: a run of the receive sub-FSM on a completed buffer goes only along
\* PACKET_RDMA -> PACKET -> {REQ | INIT | DROP_BUF} -> REPOST -> DONE,
\* SEND_COMP -> DONE and RDMA_COMP -> {DONE | ERROR}, ends in DONE or ERROR,
\* and has released the reference on the completed buffer exactly once
\* when it ends: never twice, never leaked.
C33_AsStated ==
    [][/\ (recv_state # "IDLE" /\ recv_state' # "IDLE"
             /\ recv_state' # recv_state)
          => <<recv_state, recv_state'>> \in RecvPaths
       /\ RunEnds => /\ recv_state \in {"STATE_RECV_DONE", "STATE_RECV_ERROR",
                                         "STATE_RECV_REPOST"}
                     /\ buf'.ref = 0
       /\ buf'.ref >= 0]_vars

(***************************************************************************)
(* Claims about the accounting of posted receive buffers.                  *)
(***************************************************************************)
\* a step of post_recv, and a step that releases a receive buffer of the
\* rdma transport
PostStep ==
    /\ recv_state = "IDLE" /\ recv_state' = "IDLE"
    /\ conn' = conn
    /\ post' # post \/ ni' # ni
RecvRelease ==
    /\ transport = "ib"
    /\ buf.type \in {"BUF_RECV", "BUF_TGT"}
    /\ buf'.ref < buf.ref

\* C34: between two runs the buffers on recv_list are the buffers posted to
\* the srq and not completed; a post_recv that fails returns PTL_FAIL with
\* the buffer, if it had one, taken off the list exactly once and released;
\* a run on a receive completion, successful or not, takes the buffer off
\* recv_list and decrements num_posted_recv exactly once before it releases
\* the buffer.
C34_AsStated ==
    /\ [](recv_state = "IDLE" /\ RecvAlive => ni.recv_list = ni.srq)
    /\ [][/\ (PostStep /\ ni' = ni)
               => /\ post'.ret = "PTL_FAIL"
                  /\ post'.dels = post'.puts
                  /\ post'.dels <= 1
          /\ RecvRelease => post.decs = 1
          /\ post'.decs <= 1]_vars

\* C35: num_conn of an NI counts its connections that reached CONNECTED and
\* have not processed a DISCONNECTED event: it is never negative, only a
\* step that moves the connection to CONNECTED raises it, and an ESTABLISHED
\* event that does not move a connection to CONNECTED leaves it alone
Counted(n) ==
    IF conns[n].state \in {"CONN_STATE_CONNECTED", "CONN_STATE_DISCONNECTING"}
    THEN 1 ELSE 0
TeardownVisits(n) ==
    nis[n].fini = "disconnect" /\ ~cm_flush[n] /\ conns[n].state # "ABORTED"
RequestFor(n) == EventFor(n, "CONNECT_REQUEST") /\ HasNi(n)
C36_AsStated ==
    \A n \in NIs :
      /\ TeardownVisits(n) =>
           conns[n].state \in {"CONN_STATE_DISCONNECTED",
                               "CONN_STATE_CONNECTED"}
      /\ RequestFor(n) => conns[n].state # "CONN_STATE_DISCONNECTING"

(***************************************************************************)
(* Claims about get_conn.                                                  *)
(***************************************************************************)
GetReturns(t) == get_thr[t].pc # "returned" /\ get_thr'[t].pc = "returned"
Held(id) == {i \in 1..Len(conn_objs) : conn_objs[i].id = id}

\* C37: for a physical NI the tree holds at most one conn_t per id, a call
\* of get_conn returns the conn_t of its id, the same one as every other
\* call with that id, with one more reference taken, and a new conn_t is
\* DISCONNECTED; for a logical NI a rank >= map_size gives NULL and changes
\* nothing.
C37_AsStated ==
    /\ [](\A i, j \in 1..Len(conn_objs) :
            conn_objs[i].id = conn_objs[j].id => i = j)
    /\ [][\A t \in GetThreads :
            GetReturns(t) =>
              LET id == get_thr'[t].id
                  c == get_thr'[t].ret
              IN  /\ (ni_options = "PTL_NI_LOGICAL" /\ id >= MapSize) =>
                        c = 0 /\ conn_objs' = conn_objs
                  /\ c # 0 =>
                        /\ conn_objs'[c].id = id
                        /\ Held(id) # {} => Held(id) = {c}
                        /\ conn_objs'[c].ref =
                             (IF c \in DOMAIN conn_objs
                              THEN conn_objs[c].ref ELSE 1) + 1
                        /\ c \notin DOMAIN conn_objs =>
                             conn_objs'[c].state = "CONN_STATE_DISCONNECTED"
                        /\ \A i \in DOMAIN conn_objs \ {c} :
                             conn_objs'[i] = conn_objs[i]]_vars

\* C38: the table of pids and the clients agree, pids[p] = c exactly when
\* the pid of client c is p, and an NIInit whose result is NO_SPACE,
\* PID_IN_USE, ARG_INVALID or FAIL leaves the table and the pid of the
\* client as they were before the command.
InitFailed ==
    /\ ppe_last.call = "NIInit"
    /\ ppe_last.ret \in {"PTL_NO_SPACE", "PTL_PID_IN_USE",
                         "PTL_ARG_INVALID", "PTL_FAIL"}
C38_AsStated ==
    /\ \A p \in Pids, c \in Clients :
         ppe_pids[p] = c <=> ppe_clients[c].pid = p
    /\ InitFailed =>
         /\ ppe_pids = ppe_last.pids
         /\ ppe_clients[ppe_last.peer].pid = ppe_last.held

\* C39: in a build with argument validation a call is accepted only if
\* local_offset + length, as a sum of integers, is at most the length of
\* the MD, for each MD of the call, also when the sum of the two 64 bit
\* values wraps around.
TwoMdCalls ==
    {"PtlFetchAtomic", "PtlTriggeredFetchAtomic", "PtlSwap",
     "PtlTriggeredSwap"}
C39_AsStated ==
    (MoveReturned /\ check_build /\ last.ret = "PTL_OK") =>
      /\ last.arg.local_offset + last.arg.length <= mds[last.arg.md].length
      /\ last.api \in TwoMdCalls =>
           last.arg.put_offset + last.arg.length
             <= mds[last.arg.put_md].length

====
